---- MODULE Spec2Model ----
(***************************************************************************)
(* Ledger and reconciliation core of the Octo fund dashboard (src/app.py). *)
(*                                                                         *)
(* The store (Supabase) is a set of tables; every table is a set of rows   *)
(* and every row carries the id the store gave it.  Ids are never reused.  *)
(* Each session reads the tables through st.cache_data: a read on a cache  *)
(* miss fetches the whole table and keeps the result; every later read of  *)
(* that session returns the kept rows until the cache is cleared.  The     *)
(* cache belongs to the server process that runs the session; the         *)
(* sessions of the model run in different processes.                      *)
(* A form handler is one action: all its store calls, the cache clear at   *)
(* its end and the error it may show.  A store call may fail; the handler  *)
(* then leaves through its except branch.                                  *)
(*                                                                         *)
(* Money is modelled in whole units, percentages in whole percent.  The    *)
(* summaries of the LP calls are kept exact, in hundredths of a unit        *)
(* (T * call_pct); the float arithmetic of the same lines is modelled       *)
(* separately (FloatDiv, FloatTimesInt, FloatPlus) for the totals whose     *)
(* rounding matters.                                                        *)
(***************************************************************************)
EXTENDS Integers, FiniteSets, Sequences, TLC

VARIABLES
    funds,              \* table funds: rows [id, name, commitment, currency, status]
    capital_calls,      \* table capital_calls: rows [id, fund_id, call_number,
                        \* amount, is_future]
    distributions,      \* table distributions: rows [id, fund_id, amount]
    quarterly_reports,  \* table quarterly_reports: rows [id, fund_id, year, quarter, nav]
    investors,          \* table investors: rows [id, name, commitment]
    lp_calls,           \* table lp_calls: rows [id, call_date, call_pct]
    lp_payments,        \* table lp_payments: rows [id, lp_call_id, investor_id, is_paid]
    nextId,             \* per table: the id the store gives the next inserted row
    cache,              \* per session, per table: [loaded, rows, first] (st.cache_data)
    err,                \* per session: the last handler ended in st.error
    session_state,      \* per session: the extraction results kept for the forms
    form,               \* per session: the entry form the last script run built
    audit_logs,         \* table audit_logs: the entries [action, table_name,
                        \* id] in the order they were inserted
    hist                \* history of what the sessions did (not program state):
                        \* last handler, writes left behind a kept cache, the
                        \* status last saved per payment cell, LP calls deleted

vars == <<funds, capital_calls, distributions, quarterly_reports, investors,
          lp_calls, lp_payments, nextId, cache, err, session_state, form,
          audit_logs, hist>>

uiVars == <<session_state, form>>

storeVars == <<funds, capital_calls, distributions, quarterly_reports,
               investors, lp_calls, lp_payments, nextId>>

(***************************************************************************)
(* Bounds of the model.                                                    *)
(***************************************************************************)
MaxFunds == 2
MaxCalls == 2
MaxReports == 2
MaxChildRows == 3
\* investors and LP calls inserted, payment rows inserted (SpecLP), payment
\* rows inserted (SpecLpCalls)
MaxLpRows == 3
MaxPayments == 2
MaxCallPayments == 1

\* funds and capital calls inserted (SpecStale), seconds per step of the clock
MaxStaleFunds == 1
MaxStaleCalls == 1
TickSeconds == 300

\* @st.cache_data(ttl=600)
ttl == 600

\* rows inserted in all tables (SpecReads)
MaxReadRows == 3

\* rows inserted in all tables (SpecWrites)
MaxWriteRows == 2
\* funds and capital calls inserted (SpecNumbers)
MaxNumberedFunds == 1
MaxNumberedCalls == 3
\* investors and LP calls inserted, payment rows inserted (SpecFailedRead)
MaxFailedReadRows == 2
MaxFailedReadPayments == 2
\* investors and LP calls inserted, payment rows inserted (SpecReceived)
MaxReceivedRows == 3
MaxReceivedPayments == 3
\* rows inserted in all tables, entries of the audit log (SpecAudit)
MaxAuditRows == 2
MaxAuditEntries == 1
\* rows inserted in all tables (SpecDelete)
MaxDeleteRows == 2
\* rows inserted in all tables (SpecListings)
MaxListRows == 3
\* investors inserted (SpecInvestorFields)
MaxInvestors == 2
\* funds inserted (SpecFundFields)
MaxFieldFunds == 2
\* funds and child rows inserted (SpecCascade)
MaxCascadeFunds == 1
MaxCascadeRows == 2

Sessions == {"s1", "s2"}
Tables == {"funds", "capital_calls", "distributions", "quarterly_reports",
           "investors", "lp_calls", "lp_payments"}

\* values typed into the number inputs
CommitInputs == {0, 1, 2000}
CallAmounts == {1500, 700000}
DistAmounts == {300}
Years == {2025}
Quarters == {1, 2}
NavInputs == {10, 20}
InvestorCommits == {1000000, 2000000}
LpDates == {1, 2}
LpPcts == {10}

(***************************************************************************)
(* Helpers                                                                 *)
(***************************************************************************)
RECURSIVE SumAmount(_)
\* sum(r.get("amount") or 0 for r in rows)
SumAmount(rows) ==
    IF rows = {} THEN 0
    ELSE LET r == CHOOSE x \in rows : TRUE IN r.amount + SumAmount(rows \ {r})

\* A cache entry: whether the table is cached, the rows of the cached list,
\* and for every key a reader looks up with next(...) or existing[0] - the first
\* row of the list with that key.
\* age: the seconds since the entry was fetched.  failed: the fetch raised
\* (kept for the claims; the program keeps no such mark).
Miss == [loaded |-> FALSE, rows |-> {}, first |-> {}, age |-> 0, failed |-> FALSE]
Hit(fetched) ==
    [loaded |-> TRUE, rows |-> fetched.rows, first |-> fetched.first, age |-> 0,
     failed |-> FALSE]

\* the rows of table t in the store
Table(t) ==
    CASE t = "funds" -> funds
      [] t = "capital_calls" -> capital_calls
      [] t = "distributions" -> distributions
      [] t = "quarterly_reports" -> quarterly_reports
      [] t = "investors" -> investors
      [] t = "lp_calls" -> lp_calls
      [] t = "lp_payments" -> lp_payments


\* st.cache_data.clear(): every cached table of the session is dropped
ClearCache(s) == [cache EXCEPT ![s] = [t \in Tables |-> Miss]]

\* the record hist.last keeps of the handler that ran last
Op(name, s, ok, id) == [op |-> name, s |-> s, ok |-> ok, id |-> id]
NoOp == Op("none", "s1", TRUE, 0)

\* The status each payment cell was last given by a setPaymentStatus call
\* that returned, after the calls `called` of one save are added.  An entry is
\* <<lp_call_id, investor_id, is_paid>>.
Settle(settled, called) ==
    {t \in settled : \A u \in called : <<u[1], u[2]>> # <<t[1], t[2]>>}
        \cup called

\* The values of an extraction result and of a form field, as <<kind, value>>:
\* a key that is not in the result, null, a number, a date in the format
\* %Y-%m-%d, any other text, and the exception a conversion raises.
Absent == <<"absent", 0>>
Null == <<"null", 0>>
Num(n) == <<"num", n>>
Date(d) == <<"date", d>>
Text == <<"text", 0>>
Raise == <<"raise", 0>>

CallFields == {"call_date", "payment_date", "amount", "investments",
               "mgmt_fee", "fund_expenses"}
ReportFields == {"year", "quarter", "report_date", "nav", "tvpi", "dpi",
                 "rvpi", "irr"}

\* st.session_state.get(key, {}): no result is kept
NoCallResult == [k \in CallFields |-> Absent]
NoReportResult == [k \in ReportFields |-> Absent]
FormKeys == {"cc_ai_result", "rep_ai_result", "global_rep_ai_result"}

\* st.session_state of a new session: no result is kept and no delete is
\* waiting for its confirmation.  confirm holds <<table, id>> for every key
\* confirm_del_<table>_<id> that is set.
NoResults == [cc_ai_result |-> NoCallResult, rep_ai_result |-> NoReportResult,
              global_rep_ai_result |-> NoReportResult, confirm |-> {}]

\* st.session_state.pop(key, None) of the handlers that save a form; "Save
\* Report" is on the fund page and on the reports page, each with its own key.
\* The deletes of a fund, of an investor and of an LP call pop their
\* confirm_del key; the deletes of a capital call, of a distribution and of a
\* report leave theirs.
Popped(s, name, id) ==
    CASE name = "RecordCall" ->
            {[session_state EXCEPT ![s].cc_ai_result = NoCallResult]}
      [] name = "SaveReport" ->
            {[session_state EXCEPT ![s].rep_ai_result = NoReportResult],
             [session_state EXCEPT ![s].global_rep_ai_result = NoReportResult]}
      [] name = "DeleteFund" ->
            {[session_state EXCEPT ![s].confirm = @ \ {<<"funds", id>>}]}
      [] name = "DeleteInvestor" ->
            {[session_state EXCEPT ![s].confirm = @ \ {<<"investors", id>>}]}
      [] name = "DeleteLpCall" ->
            {[session_state EXCEPT ![s].confirm = @ \ {<<"lp_calls", id>>}]}
      [] OTHER -> {session_state}

\* variant of Confirming that shows the "Yes" button of every record
ConfirmingUnasked(s, t, id) == TRUE

\* if st.session_state.get(f"confirm_del_<table>_{id}"): the "Yes" button of
\* the record is on the page
Confirming(s, t, id) == <<t, id>> \in session_state[s].confirm

\* no form has been built
NoForm == [kind |-> "none", fields |-> <<>>]

\* the handlers that call log_action before their store call, and those that
\* call it after
LoggedFirst == {"DeleteFund", "DeleteCall", "DeleteDistribution", "DeleteReport",
                "DeleteInvestor", "DeleteLpCall",
                "EditFund", "EditInvestor", "EditLpCall"}
LoggedLast == {"AddInvestor", "UploadInvestors"}

\* log_action(action, table_name, details, old_data) of handler `name` on the
\* record id
AuditEntry(name, id) ==
    [action |-> CASE name \in {"AddInvestor", "UploadInvestors"} -> "INSERT"
                  [] name \in {"EditFund", "EditInvestor", "EditLpCall"} -> "UPDATE"
                  [] OTHER -> "DELETE",
     table_name |-> CASE name \in {"DeleteFund", "EditFund"} -> "funds"
                      [] name = "DeleteCall" -> "capital_calls"
                      [] name = "DeleteDistribution" -> "distributions"
                      [] name = "DeleteReport" -> "quarterly_reports"
                      [] name \in {"DeleteLpCall", "EditLpCall"} -> "lp_calls"
                      [] OTHER -> "investors",
     id |-> id]

\* variant of LogAction that writes the entry when the handler has got through
LogActionWhenDone(name, ok, id) ==
    IF name \in LoggedFirst \cup LoggedLast /\ ok
    THEN {audit_logs, Append(audit_logs, AuditEntry(name, id))}
    ELSE {audit_logs}

\* audit_logs after handler `name`.  log_action inserts the entry, or the
\* insert raises and log_action passes.  A handler of LoggedFirst calls it
\* first, whatever becomes of its store call; one of LoggedLast calls it when
\* its store calls have returned.
LogAction(name, ok, id) ==
    IF name \in LoggedFirst \/ (name \in LoggedLast /\ ok)
    THEN {audit_logs, Append(audit_logs, AuditEntry(name, id))}
    ELSE {audit_logs}

\* the store refuses the inserts into audit_logs
AuditDown == audit_logs' = audit_logs

\* The end of a handler.  ok: it reached clear_cache_and_rerun(), so the
\* session's cache is empty and no error is on screen; otherwise it left
\* through `except Exception as e: st.error(...)` and the cache is kept.
\* wrote: a store call of the handler had succeeded before the failing one.
\* called: the setPaymentStatus calls that returned, as
\* <<lp_call_id, investor_id, is_paid>>.  deleted: the LP calls
\* the handler deleted.
Finish(s, name, ok, id, wrote, called, deleted) ==
    /\ cache' = IF ok THEN ClearCache(s) ELSE cache
    /\ session_state' \in IF ok THEN Popped(s, name, id) ELSE {session_state}
    /\ audit_logs' \in LogAction(name, ok, id)
    /\ UNCHANGED form
    /\ err' = [err EXCEPT ![s] = ~ok]
    /\ hist' = [last |-> Op(name, s, ok, id),
                wrote |-> [hist.wrote EXCEPT ![s] = IF ok THEN FALSE
                                                   ELSE @ \/ wrote],
                called |-> called,
                settled |-> Settle(hist.settled, called),
                deleted |-> [hist.deleted EXCEPT ![s] = @ \cup deleted]]

\* A handler that ended in clear_cache_and_rerun().
Done(s, name, id) == Finish(s, name, TRUE, id, FALSE, {}, {})

\* A handler that left through the except branch.
Failed(s, name, id, wrote) == Finish(s, name, FALSE, id, wrote, {}, {})

(***************************************************************************)
(* Reads                                                                   *)
(***************************************************************************)
\* two lp_payments rows of one (lp_call_id, investor_id) pair
SamePair(p, q) ==
    p.lp_call_id = q.lp_call_id /\ p.investor_id = q.investor_id

\* What one successful fetch of table t can return.  lp_payments is selected
\* without an order, and every reader takes the first row of an
\* (lp_call_id, investor_id) pair: any row of a pair can be that first row.
Fetched(t) ==
    IF t = "lp_payments"
    THEN {[rows |-> lp_payments, first |-> F] :
            F \in {S \in SUBSET lp_payments :
                     /\ \A p \in lp_payments : \E q \in S : SamePair(p, q)
                     /\ \A p, q \in S : SamePair(p, q) => p = q}}
    ELSE {[rows |-> Table(t), first |-> Table(t)]}

\* fetch_all_<t>(_sb) on a cache miss: the table is fetched and kept
Load(s, t) ==
    /\ ~cache[s][t].loaded
    /\ \E got \in Fetched(t) : cache' = [cache EXCEPT ![s][t] = Hit(got)]
    /\ UNCHANGED audit_logs
    /\ hist' = [hist EXCEPT !.last = NoOp, !.called = {}]
    /\ UNCHANGED <<storeVars, err, uiVars>>

\* One script run that only renders a page: every table of `tables` that the
\* session has not cached is fetched, in the order the page reads them.
Render(s, tables) ==
    /\ \E t \in tables : ~cache[s][t].loaded
    /\ \E pay \in Fetched("lp_payments") :
          cache' = [cache EXCEPT ![s] =
              [t \in Tables |->
                  IF t \in tables /\ ~cache[s][t].loaded
                  THEN Hit(IF t = "lp_payments" THEN pay
                           ELSE CHOOSE got \in Fetched(t) : TRUE)
                  ELSE cache[s][t]]]
    /\ UNCHANGED audit_logs
    /\ hist' = [hist EXCEPT !.last = NoOp, !.called = {}]
    /\ UNCHANGED <<storeVars, err, uiVars>>

\* variant of FailedFetch that hands out the rows of the store
FailedFetchReturnsRows(t) == [rows |-> Table(t), first |-> Table(t)]

\* fetch_all_<t>(_sb) when the store call raises: `except: return []`
FailedFetch(t) == [rows |-> {}, first |-> {}]

\* variant of RenderUnreliable that keeps no result of a fetch that raised
RenderUnreliableDropsFailures(s, tables) ==
    /\ \E t \in tables : ~cache[s][t].loaded
    /\ \E pay \in Fetched("lp_payments"),
          failing \in SUBSET {t \in tables : ~cache[s][t].loaded} :
          /\ cache' = [cache EXCEPT ![s] =
                 [t \in Tables |->
                     IF t \in tables /\ ~cache[s][t].loaded
                     THEN IF t \in failing
                          THEN Miss
                          ELSE Hit(IF t = "lp_payments" THEN pay
                                   ELSE CHOOSE got \in Fetched(t) : TRUE)
                     ELSE cache[s][t]]]
          /\ err' = [err EXCEPT ![s] = @ \/ "funds" \in failing]
    /\ UNCHANGED audit_logs
    /\ hist' = [hist EXCEPT !.last = NoOp, !.called = {}]
    /\ UNCHANGED <<storeVars, uiVars>>

\* One script run that renders a page while store calls may raise: every table
\* of `tables` that the session has not cached is fetched; the fetches of the
\* tables `failing` raise, their result is kept like any other.  Only
\* fetch_all_funds reports its exception (st.error).
RenderUnreliable(s, tables) ==
    /\ \E t \in tables : ~cache[s][t].loaded
    /\ \E pay \in Fetched("lp_payments"),
          failing \in SUBSET {t \in tables : ~cache[s][t].loaded} :
          /\ cache' = [cache EXCEPT ![s] =
                 [t \in Tables |->
                     IF t \in tables /\ ~cache[s][t].loaded
                     THEN IF t \in failing
                          THEN [Hit(FailedFetch(t)) EXCEPT !.failed = TRUE]
                          ELSE Hit(IF t = "lp_payments" THEN pay
                                   ELSE CHOOSE got \in Fetched(t) : TRUE)
                     ELSE cache[s][t]]]
          /\ err' = [err EXCEPT ![s] = @ \/ "funds" \in failing]
    /\ UNCHANGED audit_logs
    /\ hist' = [hist EXCEPT !.last = NoOp, !.called = {}]
    /\ UNCHANGED <<storeVars, uiVars>>

\* the "Refresh Data" button
Refresh(s) ==
    /\ \E t \in Tables : cache[s][t].loaded
    /\ cache' = ClearCache(s)
    /\ err' = [err EXCEPT ![s] = FALSE]
    /\ UNCHANGED audit_logs
    /\ hist' = [hist EXCEPT !.last = NoOp, !.wrote[s] = FALSE,
                            !.called = {}]
    /\ UNCHANGED <<storeVars, uiVars>>

\* variant of Tick that keeps the entries whatever their age
TickKeepsAll ==
    /\ \E s \in Sessions, t \in Tables : cache[s][t].loaded
    /\ cache' = [s \in Sessions |-> [t \in Tables |->
                    IF cache[s][t].loaded
                    THEN [cache[s][t] EXCEPT !.age = @ + TickSeconds]
                    ELSE Miss]]
    /\ UNCHANGED audit_logs
    /\ hist' = [hist EXCEPT !.last = NoOp, !.called = {}]
    /\ UNCHANGED <<storeVars, err, uiVars>>

\* @st.cache_data(ttl=600): TickSeconds go by; an entry that has reached the
\* age ttl is dropped, the next read of its table fetches again.
Tick ==
    /\ \E s \in Sessions, t \in Tables : cache[s][t].loaded
    /\ cache' = [s \in Sessions |-> [t \in Tables |->
                    IF cache[s][t].loaded /\ cache[s][t].age + TickSeconds < ttl
                    THEN [cache[s][t] EXCEPT !.age = @ + TickSeconds]
                    ELSE Miss]]
    /\ UNCHANGED audit_logs
    /\ hist' = [hist EXCEPT !.last = NoOp, !.called = {}]
    /\ UNCHANGED <<storeVars, err, uiVars>>

\* the names typed into the forms, in the order the store sorts them
Names == <<"Alpha", "Beta">>
NameRank(name) == CHOOSE i \in DOMAIN Names : Names[i] = name

\* the lists that hold every row of `rows` once
Orderings(rows) ==
    {l \in [1..Cardinality(rows) -> rows] : \A r \in rows : \E i \in DOMAIN l : l[i] = r}

\* .order("name"), .order("year,quarter"), .order("call_date"): the key a
\* fetch of table t sorts by, as a pair; investors and lp_payments are selected
\* without an order (capital_calls and distributions are ordered by columns
\* the model does not keep)
OrderKey(t, r) ==
    CASE t = "funds" -> <<NameRank(r.name), 0>>
      [] t = "quarterly_reports" -> <<r.year, r.quarter>>
      [] t = "lp_calls" -> <<r.call_date, 0>>
      [] OTHER -> <<0, 0>>

KeyLeq(a, b) == a[1] < b[1] \/ (a[1] = b[1] /\ a[2] <= b[2])

\* The lists a fetch of table t can return when the table holds `rows`: the
\* rows in the order of the key, rows of equal key in any order.
Listings(t, rows) ==
    {l \in Orderings(rows) :
        \A i, j \in DOMAIN l : i < j => KeyLeq(OrderKey(t, l[i]), OrderKey(t, l[j]))}

\* [d for d in data if d["fund_id"] == fund_id]
FilterByFund(data, fund_id) == SelectSeq(data, LAMBDA d : d.fund_id = fund_id)

get_funds(s) == cache[s]["funds"].rows
get_capital_calls(s, fund_id) ==
    {d \in cache[s]["capital_calls"].rows : d.fund_id = fund_id}
get_distributions(s, fund_id) ==
    {d \in cache[s]["distributions"].rows : d.fund_id = fund_id}
get_quarterly_reports(s, fund_id) ==
    {d \in cache[s]["quarterly_reports"].rows : d.fund_id = fund_id}
get_investors(s) == cache[s]["investors"].rows
get_lp_calls(s) == cache[s]["lp_calls"].rows
get_lp_payments(s) == cache[s]["lp_payments"].rows

\* the session has rendered the portfolio page: funds and the three ledgers
PortfolioShown(s) ==
    /\ cache[s]["funds"].loaded
    /\ cache[s]["capital_calls"].loaded
    /\ cache[s]["distributions"].loaded
    /\ cache[s]["quarterly_reports"].loaded

\* the records of table t that session s has on its pages
Listed(s, t) ==
    IF t \in {"capital_calls", "distributions", "quarterly_reports"}
    THEN {r \in cache[s][t].rows : \E fund \in get_funds(s) : fund.id = r.fund_id}
    ELSE cache[s][t].rows

\* the page that lists the records of table t has been rendered: the ledger
\* tables are on the portfolio page, investors and LP calls on the investors
\* page, the LP calls below the early return of a page without investors
PageShown(s, t) ==
    IF t \in {"investors", "lp_calls"}
    THEN /\ \A u \in {"investors", "lp_calls", "lp_payments"} : cache[s][u].loaded
         /\ t = "lp_calls" => get_investors(s) # {}
    ELSE PortfolioShown(s)

\* the keys confirm_del_<table>_<id> whose record is on a page of the session
Pending(s) ==
    {f \in session_state[s].confirm : \E r \in Listed(s, f[1]) : r.id = f[2]}

\* the delete button of a record:
\* st.session_state[f"confirm_del_<table>_{id}"] = True
RequestDelete(s, tables) ==
    /\ \E t \in tables :
          /\ PageShown(s, t)
          /\ \E r \in Listed(s, t) :
                /\ ~Confirming(s, t, r.id)
                /\ session_state' =
                       [session_state EXCEPT ![s].confirm = @ \cup {<<t, r.id>>}]
    /\ UNCHANGED audit_logs
    /\ hist' = [hist EXCEPT !.last = NoOp, !.called = {}]
    /\ UNCHANGED <<storeVars, cache, err, form>>

\* "Cancel" under the question: the key is popped, st.rerun()
CancelDelete(s) ==
    /\ \E f \in Pending(s) :
          /\ PageShown(s, f[1])
          /\ session_state' = [session_state EXCEPT ![s].confirm = @ \ {f}]
    /\ UNCHANGED audit_logs
    /\ hist' = [hist EXCEPT !.last = NoOp, !.called = {}]
    /\ UNCHANGED <<storeVars, cache, err, form>>

(***************************************************************************)
(* Rollups of the capital call ledger                                      *)
(***************************************************************************)
\* total_called without the is_future filter
DetailTotalCalledNoFilter(s, fund) ==
    SumAmount(get_capital_calls(s, fund.id))

\* show_fund_detail: total_called, uncalled
DetailTotalCalled(s, fund) ==
    LET calls == get_capital_calls(s, fund.id)
    IN SumAmount({c \in calls : ~c.is_future})

Uncalled(s, fund) == fund.commitment - DetailTotalCalled(s, fund)

\* show_overview, "Funds Status" table: total_called
OverviewTotalCalled(s, fund) == SumAmount(get_capital_calls(s, fund.id))

\* generate_master_excel_bytes, sheet "Funds Portfolio": total_called
ExcelTotalCalled(s, fund) == SumAmount(get_capital_calls(s, fund.id))

\* show_fund_detail: total_dist
TotalDist(s, fund) == SumAmount(get_distributions(s, fund.id))

\* What the "Called %" cell can show: the placeholder, or a percentage with
\* one decimal, kept in tenths of a percent.
Placeholder == <<"placeholder", 0>>
Pct(tenths) == <<"pct", tenths>>

\* f"{total_called/commitment*100:.1f}": the tenths of a percent nearest to
\* the quotient; when the quotient lies halfway between two of them the float
\* may be on either side.
PctTenths(total_called, commitment) ==
    LET thousandths == 1000 * (total_called % commitment)
        low == 1000 * (total_called \div commitment)
                   + (thousandths \div commitment)
        rest == thousandths % commitment
    IN IF 2 * rest < commitment THEN {low}
       ELSE IF 2 * rest > commitment THEN {low + 1}
       ELSE {low, low + 1}

\* pct = f"{total_called/commitment*100:.1f}%" if commitment > 0 else "-"
CalledPct(total_called, commitment) ==
    IF commitment > 0
    THEN {Pct(t) : t \in PctTenths(total_called, commitment)}
    ELSE {Placeholder}

\* show_overview, "Funds Status" table: Called %
OverviewCalledPct(s, fund) ==
    CalledPct(OverviewTotalCalled(s, fund), fund.commitment)

\* show_fund_detail, "Total Called" metric: the percentage under the amount
DetailCalledPct(s, fund) ==
    CalledPct(DetailTotalCalled(s, fund), fund.commitment)

(***************************************************************************)
(* Funds and the capital call ledger                                       *)
(***************************************************************************)
\* show_portfolio: final_commit
FinalCommit(new_commitment) ==
    IF new_commitment < 1000 THEN new_commitment * 1000000 ELSE new_commitment

Bump(t) == [nextId EXCEPT ![t] = @ + 1]

\* st.number_input(label, min_value=lo): of the numbers typed, the widget
\* hands back those from lo on
NumberInputFrom(typed, lo) == {v \in typed : lo <= v}

\* st.selectbox(label, options): the widget hands back one of its options
Selectbox(picked, options) == picked \cap options

\* new_status_ui.lower()
Lower(status_ui) ==
    CASE status_ui = "Active" -> "active"
      [] status_ui = "Closed" -> "closed"
      [] status_ui = "Exited" -> "exited"
      [] OTHER -> status_ui

\* variant of CreateFund whose commitment input has no min_value
CreateFundAnyCommitment(s, names, inputs, currencies, statuses) ==
    /\ \E new_name \in names, new_commitment \in inputs,
          new_currency \in Selectbox(currencies, {"USD", "EUR"}),
          new_status_ui \in Selectbox(statuses, {"Active", "Closed", "Exited"}) :
        \/ /\ funds' = funds \cup {[id |-> nextId["funds"], name |-> new_name,
                                    commitment |-> FinalCommit(new_commitment),
                                    currency |-> new_currency,
                                    status |-> Lower(new_status_ui)]}
           /\ nextId' = Bump("funds")
           /\ Done(s, "CreateFund", nextId["funds"])
           /\ UNCHANGED <<capital_calls, distributions, quarterly_reports,
                          investors, lp_calls, lp_payments>>
        \/ /\ Failed(s, "CreateFund", 0, FALSE)
           /\ UNCHANGED storeVars

\* show_portfolio, "Save New Fund": the commitment is a number input from 0.0
\* on, currency and status are select boxes
CreateFund(s, names, inputs, currencies, statuses) ==
    /\ \E new_name \in names, new_commitment \in NumberInputFrom(inputs, 0),
          new_currency \in Selectbox(currencies, {"USD", "EUR"}),
          new_status_ui \in Selectbox(statuses, {"Active", "Closed", "Exited"}) :
        \/ /\ funds' = funds \cup {[id |-> nextId["funds"], name |-> new_name,
                                    commitment |-> FinalCommit(new_commitment),
                                    currency |-> new_currency,
                                    status |-> Lower(new_status_ui)]}
           /\ nextId' = Bump("funds")
           /\ Done(s, "CreateFund", nextId["funds"])
           /\ UNCHANGED <<capital_calls, distributions, quarterly_reports,
                          investors, lp_calls, lp_payments>>
        \/ /\ Failed(s, "CreateFund", 0, FALSE)
           /\ UNCHANGED storeVars

\* st.number_input("Call Number", min_value=1, value=len(calls)+1): the
\* number of the fund's calls in the list the session reads, plus one, unless
\* another number is typed
CallNumbers(s, fund, numbers) ==
    {Cardinality(get_capital_calls(s, fund.id)) + 1}
        \cup NumberInputFrom(numbers, 1)

\* show_fund_detail, "Save Call to System"
RecordCall(s, numbers, amounts, futures) ==
    /\ PortfolioShown(s)
    /\ \E fund \in get_funds(s), amount \in amounts, is_future \in futures :
       \E call_num \in CallNumbers(s, fund, numbers) :
        \/ /\ capital_calls' = capital_calls \cup
                  {[id |-> nextId["capital_calls"], fund_id |-> fund.id,
                    call_number |-> call_num,
                    amount |-> amount, is_future |-> is_future]}
           /\ nextId' = Bump("capital_calls")
           /\ Done(s, "RecordCall", nextId["capital_calls"])
           /\ UNCHANGED <<funds, distributions, quarterly_reports,
                          investors, lp_calls, lp_payments>>
        \/ /\ Failed(s, "RecordCall", 0, FALSE)
           /\ UNCHANGED storeVars

\* show_fund_detail, "Delete" of a capital call, confirmed
DeleteCall(s) ==
    /\ PortfolioShown(s)
    /\ \E fund \in get_funds(s) : \E c \in get_capital_calls(s, fund.id) :
        /\ Confirming(s, "capital_calls", c.id)
        /\ \/ /\ capital_calls' = {d \in capital_calls : d.id # c.id}
              /\ Done(s, "DeleteCall", c.id)
              /\ UNCHANGED <<funds, distributions, quarterly_reports,
                             investors, lp_calls, lp_payments, nextId>>
           \/ /\ Failed(s, "DeleteCall", c.id, FALSE)
              /\ UNCHANGED storeVars

(***************************************************************************)
(* Distributions, quarterly reports, deleting a fund                       *)
(***************************************************************************)
\* show_fund_detail, "Add Distribution"
RecordDistribution(s) ==
    /\ PortfolioShown(s)
    /\ \E fund \in get_funds(s), dist_amount \in DistAmounts :
        \/ /\ distributions' = distributions \cup
                  {[id |-> nextId["distributions"], fund_id |-> fund.id,
                    amount |-> dist_amount]}
           /\ nextId' = Bump("distributions")
           /\ Done(s, "RecordDistribution", nextId["distributions"])
           /\ UNCHANGED <<funds, capital_calls, quarterly_reports,
                          investors, lp_calls, lp_payments>>
        \/ /\ Failed(s, "RecordDistribution", 0, FALSE)
           /\ UNCHANGED storeVars

\* show_fund_detail, "Delete" of a distribution, confirmed
DeleteDistribution(s) ==
    /\ PortfolioShown(s)
    /\ \E fund \in get_funds(s) : \E d \in get_distributions(s, fund.id) :
        /\ Confirming(s, "distributions", d.id)
        /\ \/ /\ distributions' = {r \in distributions : r.id # d.id}
              /\ Done(s, "DeleteDistribution", d.id)
              /\ UNCHANGED <<funds, capital_calls, quarterly_reports,
                             investors, lp_calls, lp_payments, nextId>>
           \/ /\ Failed(s, "DeleteDistribution", d.id, FALSE)
              /\ UNCHANGED storeVars

\* rows.update(values).eq("id", id), values given as a record
UpdateEqId(rows, values, id) ==
    {IF r.id = id
     THEN [k \in DOMAIN r |-> IF k \in DOMAIN values THEN values[k] ELSE r[k]]
     ELSE r : r \in rows}

\* variant of EditFund whose update is in the store when the handler fails
EditFundKeepsFailedWrite(s, names, inputs, currencies, statuses) ==
    /\ PortfolioShown(s)
    /\ \E fund \in get_funds(s), new_name \in names,
          new_commitment \in NumberInputFrom(inputs, 0),
          new_currency \in Selectbox(currencies, {"USD", "EUR"}),
          new_status_ui \in Selectbox(statuses, {"Active", "Closed", "Exited"}) :
        /\ funds' = UpdateEqId(funds, [name |-> new_name,
                                       commitment |-> new_commitment,
                                       currency |-> new_currency,
                                       status |-> Lower(new_status_ui)], fund.id)
        /\ \/ Done(s, "EditFund", fund.id)
           \/ Failed(s, "EditFund", fund.id, FALSE)
        /\ UNCHANGED <<capital_calls, distributions, quarterly_reports,
                       investors, lp_calls, lp_payments, nextId>>

\* show_fund_detail, "Save" of the edit form: the commitment is a number
\* input from 0.0 on and is stored as typed, currency and status are select
\* boxes
EditFund(s, names, inputs, currencies, statuses) ==
    /\ PortfolioShown(s)
    /\ \E fund \in get_funds(s), new_name \in names,
          new_commitment \in NumberInputFrom(inputs, 0),
          new_currency \in Selectbox(currencies, {"USD", "EUR"}),
          new_status_ui \in Selectbox(statuses, {"Active", "Closed", "Exited"}) :
        \/ /\ funds' = UpdateEqId(funds, [name |-> new_name,
                                          commitment |-> new_commitment,
                                          currency |-> new_currency,
                                          status |-> Lower(new_status_ui)], fund.id)
           /\ Done(s, "EditFund", fund.id)
           /\ UNCHANGED <<capital_calls, distributions, quarterly_reports,
                          investors, lp_calls, lp_payments, nextId>>
        \/ /\ Failed(s, "EditFund", fund.id, FALSE)
           /\ UNCHANGED storeVars

\* table(...).upsert(row) with no on_conflict: the store resolves conflicts on
\* the primary key.  Rows are identified by id everywhere in the program
\* (update/delete .eq("id", ...)); a row that carries an id replaces the stored
\* row of that id, a row without one is given a fresh id and is inserted.
Upsert(rows, row, id) ==
    IF "id" \in DOMAIN row
    THEN {r \in rows : r.id # row.id} \cup {row}
    ELSE rows \cup {[k \in DOMAIN row \cup {"id"} |->
                        IF k = "id" THEN id ELSE row[k]]}

\* show_fund_detail and show_reports, "Save Report"
SaveReport(s, periods, navs) ==
    /\ PortfolioShown(s)
    /\ \E fund \in get_funds(s), year \in Years, quarter \in periods,
          nav \in navs :
        \/ /\ quarterly_reports' =
                  Upsert(quarterly_reports,
                         [fund_id |-> fund.id, year |-> year,
                          quarter |-> quarter, nav |-> nav],
                         nextId["quarterly_reports"])
           /\ nextId' = Bump("quarterly_reports")
           /\ Done(s, "SaveReport", nextId["quarterly_reports"])
           /\ UNCHANGED <<funds, capital_calls, distributions,
                          investors, lp_calls, lp_payments>>
        \/ /\ Failed(s, "SaveReport", 0, FALSE)
           /\ UNCHANGED storeVars

\* show_fund_detail, "Delete" of a quarterly report, confirmed
DeleteReport(s) ==
    /\ PortfolioShown(s)
    /\ \E fund \in get_funds(s) : \E r \in get_quarterly_reports(s, fund.id) :
        /\ Confirming(s, "quarterly_reports", r.id)
        /\ \/ /\ quarterly_reports' = {d \in quarterly_reports : d.id # r.id}
              /\ Done(s, "DeleteReport", r.id)
              /\ UNCHANGED <<funds, capital_calls, distributions,
                             investors, lp_calls, lp_payments, nextId>>
           \/ /\ Failed(s, "DeleteReport", r.id, FALSE)
              /\ UNCHANGED storeVars

\* a delete that removes nothing
DeleteEqNothing(rows, column, value) == rows

\* rows.delete().eq(column, value)
DeleteEq(rows, column, value) == {r \in rows : r[column] # value}

\* variant of DeleteFund that deletes the funds row before the children
DeleteFundParentFirst(s) ==
    /\ PortfolioShown(s)
    /\ \E fund \in get_funds(s), n \in 0..4 :
        /\ Confirming(s, "funds", fund.id)
        /\ funds' = IF n >= 1 THEN DeleteEq(funds, "id", fund.id) ELSE funds
        /\ capital_calls' = IF n >= 2 THEN DeleteEq(capital_calls, "fund_id", fund.id)
                                      ELSE capital_calls
        /\ distributions' = IF n >= 3 THEN DeleteEq(distributions, "fund_id", fund.id)
                                      ELSE distributions
        /\ quarterly_reports' =
               IF n >= 4 THEN DeleteEq(quarterly_reports, "fund_id", fund.id)
                         ELSE quarterly_reports
        /\ IF n = 4
           THEN Done(s, "DeleteFund", fund.id)
           ELSE Failed(s, "DeleteFund", fund.id, funds' # funds)
        /\ UNCHANGED <<investors, lp_calls, lp_payments, nextId>>

\* show_fund_detail, "Yes, Delete All": four deletes in a row, children first.
\* n is the number of store calls that succeed; the next one raises.
DeleteFund(s) ==
    /\ PortfolioShown(s)
    /\ \E fund \in get_funds(s), n \in 0..4 :
        /\ Confirming(s, "funds", fund.id)
        /\ capital_calls' = IF n >= 1 THEN DeleteEq(capital_calls, "fund_id", fund.id)
                                      ELSE capital_calls
        /\ distributions' = IF n >= 2 THEN DeleteEq(distributions, "fund_id", fund.id)
                                      ELSE distributions
        /\ quarterly_reports' =
               IF n >= 3 THEN DeleteEq(quarterly_reports, "fund_id", fund.id)
                         ELSE quarterly_reports
        /\ funds' = IF n >= 4 THEN DeleteEq(funds, "id", fund.id) ELSE funds
        /\ IF n = 4
           THEN Done(s, "DeleteFund", fund.id)
           ELSE Failed(s, "DeleteFund", fund.id,
                       <<capital_calls', distributions', quarterly_reports'>>
                           # <<capital_calls, distributions, quarterly_reports>>)
        /\ UNCHANGED <<investors, lp_calls, lp_payments, nextId>>

(***************************************************************************)
(* LP calls and the payment matrix (show_investors, show_overview)         *)
(***************************************************************************)
RECURSIVE SumCommitment(_)
\* sum(inv.get("commitment", 0) for inv in investors)
SumCommitment(invs) ==
    IF invs = {} THEN 0
    ELSE LET r == CHOOSE x \in invs : TRUE
         IN r.commitment + SumCommitment(invs \ {r})

LPTables == {"investors", "lp_calls", "lp_payments"}

\* the investors page has read its three lists
LPShown(s) == \A t \in LPTables : cache[s][t].loaded

\* f"{c['call_date']} ({c['call_pct']}%)"
ColName(c) == <<c.call_date, c.call_pct>>

ColNames(calls) == {ColName(c) : c \in calls}

\* col_mapping after the matrix loop: every column name is mapped to the last
\* call of the list with that name.  The list is ordered by call_date, calls of
\* one name share their date, so any of them can be the last.
ColMappings(calls) ==
    {m \in [ColNames(calls) -> calls] : \A n \in ColNames(calls) : ColName(m[n]) = n}

\* The columns the save loop can have behind it inside one row: the items
\* of col_mapping come in the order of the list, which is ordered by call_date.
ColPrefixes(calls) ==
    {C \in SUBSET ColNames(calls) :
        \A n \in C, m \in ColNames(calls) \ C : n[1] <= m[1]}

\* variant of LoopPrefixes that goes through the checkboxes in any order
LoopPrefixesAnyOrder(invs, calls) ==
    SUBSET ({inv.id : inv \in invs} \X ColNames(calls))

\* The sets of checkboxes <<investor id, column name>> the save loop can have
\* behind it: the loop goes through the rows of edited_df (investors are
\* selected without an order) and, inside a row, through the columns.
LoopPrefixes(invs, calls) ==
    {(I \X ColNames(calls)) \cup ({i} \X C) :
        i \in {inv.id : inv \in invs},
        I \in SUBSET {inv.id : inv \in invs},
        C \in ColPrefixes(calls)}

\* variant of FirstPayment that matches rows on the investor alone
FirstPaymentAnyCall(payments, lp_call_id, investor_id) ==
    {p \in payments : p.investor_id = investor_id}

\* next((p for p in payments if p["lp_call_id"] == c["id"]
\*       and p["investor_id"] == inv["id"]), None), and existing[0]:
\* payments holds the first row of every pair, the result is that row or none
FirstPayment(payments, lp_call_id, investor_id) ==
    {p \in payments : p.lp_call_id = lp_call_id /\ p.investor_id = investor_id}

\* `payment and payment["is_paid"]`, `payment["is_paid"] if payment else False`
IsPaid(payments, c, inv) ==
    \E p \in FirstPayment(payments, c.id, inv.id) : p.is_paid

\* variant of OverviewSummaryOf that counts a commitment for every paid row of
\* the call, whether its investor is in the list or not
OverviewSummaryOfPaidRows(invs, calls, payments) ==
    LET total_fund_commitment == SumCommitment(invs)
    IN {LET total_called_amount == total_fund_commitment * c.call_pct
            paid_commit ==
                SumCommitment({[id |-> p.investor_id, commitment |-> 1000000] :
                                  p \in {q \in payments :
                                            q.lp_call_id = c.id /\ q.is_paid}})
            total_paid_amount == paid_commit * c.call_pct
        IN [call |-> c.id,
            required |-> total_called_amount,
            received |-> total_paid_amount,
            outstanding |-> total_called_amount - total_paid_amount]
        : c \in calls}

\* FOF Collection Summary of the overview page, one row per call of the list.
\* Amounts are kept in cents: call_pct is not divided by 100.
OverviewSummaryOf(invs, calls, payments) ==
    LET total_fund_commitment == SumCommitment(invs)
    IN {LET total_called_amount == total_fund_commitment * c.call_pct
            paid_commit == SumCommitment({inv \in invs : IsPaid(payments, c, inv)})
            total_paid_amount == paid_commit * c.call_pct
        IN [call |-> c.id,
            required |-> total_called_amount,
            received |-> total_paid_amount,
            outstanding |-> total_called_amount - total_paid_amount]
        : c \in calls}

OverviewSummary(s) ==
    OverviewSummaryOf(get_investors(s), get_lp_calls(s),
                      cache[s]["lp_payments"].first)

\* FOF Collection Summary of the investors page.  The page returns before it
\* when there is no investor; total_fund_commitment is accumulated by the
\* matrix loop.
InvestorsSummaryOf(invs, calls, payments) ==
    IF invs = {} THEN {}
    ELSE LET total_fund_commitment == SumCommitment(invs)
         IN {LET call_pct == c.call_pct
                 total_called_amount == total_fund_commitment * call_pct
                 paid == {inv \in invs : IsPaid(payments, c, inv)}
                 total_paid_amount == SumCommitment(paid) * call_pct
                 outstanding == total_called_amount - total_paid_amount
             IN [call |-> c.id,
                 required |-> total_called_amount,
                 received |-> total_paid_amount,
                 outstanding |-> outstanding]
             : c \in calls}

\* variant of InvestorsSummary that counts the commitment of an investor once
\* for every paid row of the call
InvestorsSummaryCountsRows(s) ==
    IF get_investors(s) = {} THEN {}
    ELSE LET total_fund_commitment == SumCommitment(get_investors(s))
         IN {LET total_called_amount == total_fund_commitment * c.call_pct
                 paid == {[id |-> p.id, commitment |-> inv.commitment] :
                             p \in {q \in get_lp_payments(s) :
                                       q.lp_call_id = c.id /\ q.is_paid},
                             inv \in get_investors(s)}
                 total_paid_amount ==
                     SumCommitment({x \in paid :
                         \E p \in get_lp_payments(s), inv \in get_investors(s) :
                            /\ p.id = x.id /\ p.investor_id = inv.id
                            /\ inv.commitment = x.commitment}) * c.call_pct
             IN [call |-> c.id,
                 required |-> total_called_amount,
                 received |-> total_paid_amount,
                 outstanding |-> total_called_amount - total_paid_amount]
             : c \in get_lp_calls(s)}

InvestorsSummary(s) ==
    InvestorsSummaryOf(get_investors(s), get_lp_calls(s),
                       cache[s]["lp_payments"].first)

\* The payment matrix under col_mapping m: the checkbox of every investor row
\* and column name.
MatrixOf(invs, m, payments) ==
    [cell \in {inv.id : inv \in invs} \X DOMAIN m |->
        \E inv \in invs : inv.id = cell[1] /\ IsPaid(payments, m[cell[2]], inv)]

\* "Save Investor": the commitment is a number input from 0.0 on
AddInvestor(s, names, commits) ==
    \E inv_name \in names, inv_commit \in NumberInputFrom(commits, 0) :
        \/ /\ investors' = investors \cup
                  {[id |-> nextId["investors"], name |-> inv_name,
                    commitment |-> inv_commit]}
           /\ nextId' = Bump("investors")
           /\ Done(s, "AddInvestor", nextId["investors"])
           /\ UNCHANGED <<funds, capital_calls, distributions,
                          quarterly_reports, lp_calls, lp_payments>>
        \/ /\ Failed(s, "AddInvestor", 0, FALSE)
           /\ UNCHANGED storeVars

\* st.number_input(label, min_value=lo, max_value=hi): of the numbers typed,
\* the widget hands back those inside its range
NumberInput(typed, lo, hi) == {v \in typed : lo <= v /\ v <= hi}

\* commit_str = str(row.iloc[1]) without ',', '$' and the euro sign
\* try: commit_val = float(commit_str)
\* except: commit_val = 0.0
CommitVal(cell) == IF cell[1] = "num" THEN cell[2] ELSE 0

\* the rows of the uploaded sheet that are not skipped: name_val is neither
\* empty nor 'nan'
NamedRows(df) == SelectSeq(df.rows, LAMBDA row : row.name # "")

\* "Load Investors to System": one insert per row that has a name, the
\* commitment as float() reads it.  n is the number of inserts that succeed;
\* the next one raises and the rows inserted so far stay.  A sheet with fewer
\* than two columns is refused with st.error.
UploadInvestors(s, files) ==
    \E df \in files :
       IF df.columns >= 2
       THEN \E n \in 0..Len(NamedRows(df)) :
               /\ investors' = investors \cup
                      {[id |-> nextId["investors"] + i - 1,
                        name |-> NamedRows(df)[i].name,
                        commitment |-> CommitVal(NamedRows(df)[i].commit)]
                          : i \in 1..n}
               /\ nextId' = [nextId EXCEPT !["investors"] = @ + n]
               /\ IF n = Len(NamedRows(df))
                  THEN Done(s, "UploadInvestors", 0)
                  ELSE Failed(s, "UploadInvestors", 0, n > 0)
               /\ UNCHANGED <<funds, capital_calls, distributions,
                              quarterly_reports, lp_calls, lp_payments>>
       ELSE /\ Failed(s, "UploadInvestors", 0, FALSE)
            /\ UNCHANGED storeVars

\* "Add LP Call": the form is below the early return of a page without
\* investors; the percentage is a number input from 0.0 to 100.0
AddLpCall(s, dates, pcts) ==
    /\ LPShown(s)
    /\ get_investors(s) # {}
    /\ \E new_call_date \in dates, new_call_pct \in NumberInput(pcts, 0, 100) :
        \/ /\ lp_calls' = lp_calls \cup
                  {[id |-> nextId["lp_calls"], call_date |-> new_call_date,
                    call_pct |-> new_call_pct]}
           /\ nextId' = Bump("lp_calls")
           /\ Done(s, "AddLpCall", nextId["lp_calls"])
           /\ UNCHANGED <<funds, capital_calls, distributions,
                          quarterly_reports, investors, lp_payments>>
        \/ /\ Failed(s, "AddLpCall", 0, FALSE)
           /\ UNCHANGED storeVars

\* "Yes" under "Delete '<investor>'?": the investors row alone is deleted
DeleteInvestor(s) ==
    /\ LPShown(s)
    /\ \E inv \in get_investors(s) :
        /\ Confirming(s, "investors", inv.id)
        /\ \/ /\ investors' = DeleteEq(investors, "id", inv.id)
              /\ Done(s, "DeleteInvestor", inv.id)
              /\ UNCHANGED <<funds, capital_calls, distributions,
                             quarterly_reports, lp_calls, lp_payments, nextId>>
           \/ /\ Failed(s, "DeleteInvestor", inv.id, FALSE)
              /\ UNCHANGED storeVars

\* "Save Changes" of an investor's edit form: the commitment is a number input
\* without a range
EditInvestor(s, names, commits) ==
    /\ LPShown(s)
    /\ \E inv \in get_investors(s), new_name \in names, new_commit \in commits :
        \/ /\ investors' = UpdateEqId(investors, [name |-> new_name,
                                                  commitment |-> new_commit],
                                      inv.id)
           /\ Done(s, "EditInvestor", inv.id)
           /\ UNCHANGED <<funds, capital_calls, distributions,
                          quarterly_reports, lp_calls, lp_payments, nextId>>
        \/ /\ Failed(s, "EditInvestor", inv.id, FALSE)
           /\ UNCHANGED storeVars

\* "Save" of an LP call's edit form; the percentage is a number input without
\* a range
EditLpCall(s, dates, pcts) ==
    /\ LPShown(s)
    /\ get_investors(s) # {}
    /\ \E c \in get_lp_calls(s), edit_date \in dates, edit_pct \in pcts :
        \/ /\ lp_calls' = UpdateEqId(lp_calls, [call_date |-> edit_date,
                                                call_pct |-> edit_pct], c.id)
           /\ Done(s, "EditLpCall", c.id)
           /\ UNCHANGED <<funds, capital_calls, distributions,
                          quarterly_reports, investors, lp_payments, nextId>>
        \/ /\ Failed(s, "EditLpCall", c.id, FALSE)
           /\ UNCHANGED storeVars

\* "Yes" under "Delete this LP call?": the lp_calls row alone is deleted
DeleteLpCall(s) ==
    /\ LPShown(s)
    /\ get_investors(s) # {}
    /\ \E c \in get_lp_calls(s) :
        /\ Confirming(s, "lp_calls", c.id)
        /\ \/ /\ lp_calls' = DeleteEq(lp_calls, "id", c.id)
              /\ Finish(s, "DeleteLpCall", TRUE, c.id, FALSE, {}, {c.id})
              /\ UNCHANGED <<funds, capital_calls, distributions,
                             quarterly_reports, investors, lp_payments, nextId>>
           \/ /\ Failed(s, "DeleteLpCall", c.id, FALSE)
              /\ UNCHANGED storeVars

\* The body of the save loop for one checkbox, as the store call it makes.
setPaymentStatus(payments, c, inv_id, is_paid) ==
    LET existing == FirstPayment(payments, c.id, inv_id)
        call == [kind |-> "none", id |-> 0, lp_call_id |-> c.id,
                 investor_id |-> inv_id, is_paid |-> is_paid]
    IN IF existing # {}
       THEN LET e == CHOOSE p \in existing : TRUE
            IN IF e.is_paid # is_paid
               THEN [call EXCEPT !.kind = "update", !.id = e.id]
               ELSE call
       ELSE [call EXCEPT !.kind = "insert"]

\* the store after one call of the save loop
Written(store, w) ==
    CASE w.kind = "update" ->
            [store EXCEPT !.rows = {IF r.id = w.id
                                    THEN [r EXCEPT !.is_paid = w.is_paid]
                                    ELSE r : r \in store.rows}]
      [] w.kind = "insert" ->
            [rows |-> store.rows \cup
                        {[id |-> store.nid, lp_call_id |-> w.lp_call_id,
                          investor_id |-> w.investor_id, is_paid |-> w.is_paid]},
             nid |-> store.nid + 1]
      [] OTHER -> store

RECURSIVE SaveLoop(_, _)
\* the store after the calls ws of the save loop
SaveLoop(store, ws) ==
    IF ws = {} THEN store
    ELSE LET w == CHOOSE x \in ws : TRUE
         IN SaveLoop(Written(store, w), ws \ {w})

\* "Save Payment Statuses".  done are the checkboxes the loop gets through and
\* edited their values in edited_df: the loop gets through all of them, or the
\* store call for the next checkbox raises and the writes made so far stay
\* (whatever the snapshot holds for a checkbox, one of its two values makes the
\* loop call the store).
SavePayments(s) ==
    /\ LPShown(s)
    /\ get_investors(s) # {}
    /\ \E col_mapping \in ColMappings(get_lp_calls(s)),
          done \in LoopPrefixes(get_investors(s), get_lp_calls(s)) :
       \E edited \in [done -> BOOLEAN] :
          LET ws == {setPaymentStatus(cache[s]["lp_payments"].first,
                                      col_mapping[cell[2]], cell[1], edited[cell])
                        : cell \in done}
              after == SaveLoop([rows |-> lp_payments,
                                 nid |-> nextId["lp_payments"]], ws)
              all == {inv.id : inv \in get_investors(s)}
                         \X ColNames(get_lp_calls(s))
          IN /\ lp_payments' = after.rows
             /\ nextId' = [nextId EXCEPT !["lp_payments"] = after.nid]
             /\ Finish(s, "SavePayments", done = all, 0,
                       \E w \in ws : w.kind # "none",
                       {<<w.lp_call_id, w.investor_id, w.is_paid>> : w \in ws},
                       {})
             /\ UNCHANGED <<funds, capital_calls, distributions,
                            quarterly_reports, investors, lp_calls>>

(***************************************************************************)
(* The arithmetic of the summaries: Python floats, that is IEEE 754         *)
(* binary64 with round to nearest, ties to even.  A float is m * 2^e with   *)
(* m odd or zero; m is kept as its binary digits, lowest first.  The        *)
(* amounts of the summaries stay far from the ends of the exponent range.   *)
(***************************************************************************)
Precision == 53

\* Long arithmetic is done on digits of LimbBits binary digits each.
LimbBits == 6
Limb == 2 ^ LimbBits

Zeros(k) == [i \in 1..k |-> 0]

\* digits without zeros at the high end
TrimHigh(bits) ==
    IF \A i \in DOMAIN bits : bits[i] = 0 THEN <<>>
    ELSE SubSeq(bits, 1, CHOOSE i \in DOMAIN bits :
                            bits[i] = 1 /\ \A j \in DOMAIN bits : j > i => bits[j] = 0)

\* the number of zeros at the low end
LowZeros(bits) ==
    IF \A i \in DOMAIN bits : bits[i] = 0 THEN Len(bits)
    ELSE (CHOOSE i \in DOMAIN bits :
            bits[i] = 1 /\ \A j \in DOMAIN bits : j < i => bits[j] = 0) - 1

\* the binary digits of a natural number below 2^31, lowest first
Bits(n) == TrimHigh([i \in 1..31 |-> (n \div 2 ^ (i - 1)) % 2])

\* binary digits as limbs, and back
ToLimbs(bits) ==
    [j \in 1..((Len(bits) + LimbBits - 1) \div LimbBits) |->
        LET Digit(i) == IF i <= Len(bits) THEN bits[i] ELSE 0
            low == LimbBits * (j - 1)
        IN Digit(low + 1) + 2 * Digit(low + 2) + 4 * Digit(low + 3)
             + 8 * Digit(low + 4) + 16 * Digit(low + 5) + 32 * Digit(low + 6)]

FromLimbs(limbs) ==
    TrimHigh([i \in 1..(LimbBits * Len(limbs)) |->
                (limbs[((i - 1) \div LimbBits) + 1] \div 2 ^ ((i - 1) % LimbBits)) % 2])

RECURSIVE LimbsTimes(_, _, _)
\* limbs * n + carry, for an integer n below 2^25
LimbsTimes(limbs, n, carry) ==
    IF limbs = <<>>
    THEN IF carry = 0 THEN <<>>
         ELSE <<carry % Limb>> \o LimbsTimes(limbs, n, carry \div Limb)
    ELSE <<(Head(limbs) * n + carry) % Limb>>
            \o LimbsTimes(Tail(limbs), n, (Head(limbs) * n + carry) \div Limb)

RECURSIVE LimbsPlus(_, _, _)
\* a + b + carry
LimbsPlus(a, b, carry) ==
    IF a = <<>> /\ b = <<>> THEN IF carry = 0 THEN <<>> ELSE <<carry>>
    ELSE LET v == (IF a = <<>> THEN 0 ELSE Head(a))
                      + (IF b = <<>> THEN 0 ELSE Head(b)) + carry
         IN <<v % Limb>> \o LimbsPlus(IF a = <<>> THEN a ELSE Tail(a),
                                      IF b = <<>> THEN b ELSE Tail(b),
                                      v \div Limb)

RECURSIVE LimbsMinus(_, _, _)
\* a - b - borrow, for a >= b + borrow
LimbsMinus(a, b, borrow) ==
    IF a = <<>> THEN <<>>
    ELSE LET v == Head(a) - (IF b = <<>> THEN 0 ELSE Head(b)) - borrow
         IN <<v % Limb>> \o LimbsMinus(Tail(a),
                                       IF b = <<>> THEN b ELSE Tail(b),
                                       IF v < 0 THEN 1 ELSE 0)

BitsTimes(bits, n) == FromLimbs(LimbsTimes(ToLimbs(bits), n, 0))
BitsPlus(a, b) == FromLimbs(LimbsPlus(ToLimbs(a), ToLimbs(b), 0))
BitsMinus(a, b) == FromLimbs(LimbsMinus(ToLimbs(a), ToLimbs(b), 0))

\* a <= b
BitsLeq(a, b) ==
    LET n == IF Len(a) < Len(b) THEN Len(b) ELSE Len(a)
        x == a \o Zeros(n - Len(a))
        y == b \o Zeros(n - Len(b))
    IN \/ x = y
       \/ \E i \in 1..n : x[i] < y[i] /\ \A j \in (i + 1)..n : x[j] = y[j]

\* the float bits * 2^e for digits that need no rounding
Normal(bits, e) ==
    LET b == TrimHigh(bits)
        k == LowZeros(b)
    IN IF b = <<>> THEN [m |-> <<>>, e |-> 0]
       ELSE [m |-> SubSeq(b, k + 1, Len(b)), e |-> e + k]

\* the float nearest to bits * 2^e, ties to even
Round(bits, e) ==
    LET b == TrimHigh(bits)
        d == Len(b) - Precision
    IN IF d <= 0 THEN Normal(b, e)
       ELSE LET kept == SubSeq(b, d + 1, Len(b))
                up == /\ b[d] = 1
                      /\ \/ kept[1] = 1
                         \/ \E i \in 1..(d - 1) : b[i] = 1
            IN Normal(IF up THEN BitsPlus(kept, <<1>>) ELSE kept, e + d)

RECURSIVE PowerOfTwoMod(_, _)
\* 2^k modulo b, for b below 2^15
PowerOfTwoMod(k, b) ==
    IF k = 0 THEN 1 % b
    ELSE IF k % 2 = 1 THEN (2 * PowerOfTwoMod(k - 1, b)) % b
    ELSE (PowerOfTwoMod(k \div 2, b) * PowerOfTwoMod(k \div 2, b)) % b

\* the first k binary digits of r / b behind the point, for r < b, lowest
\* first; below them one more digit, which is 1 when a remainder is left
DivBits(r, b, k) ==
    [i \in 1..(k + 1) |->
        IF i = 1
        THEN IF (r * PowerOfTwoMod(k, b)) % b = 0 THEN 0 ELSE 1
        ELSE (2 * ((r * PowerOfTwoMod(k + 1 - i, b)) % b)) \div b]

\* a / b for integers a >= 0 and 0 < b < 1024: the quotient is cut behind
\* more digits than a float keeps
FloatDiv(a, b) ==
    LET k == Precision + 11
    IN Round(DivBits(a % b, b, k) \o Bits(a \div b), 0 - (k + 1))

\* n * x for an integer n (which Python converts to a float first, exactly)
FloatTimesInt(n, x) == Round(BitsTimes(x.m, n), x.e)

\* x + y
FloatPlus(x, y) ==
    LET e == IF x.e < y.e THEN x.e ELSE y.e
    IN Round(BitsPlus(Zeros(x.e - e) \o x.m, Zeros(y.e - e) \o y.m), e)

\* call_pct = c["call_pct"] / 100.0
call_pct(c) == FloatDiv(c.call_pct, 100)

\* variant of total_called_amount that multiplies by the percentage itself
total_called_amount_percent(invs, c) ==
    FloatTimesInt(SumCommitment(invs), FloatDiv(c.call_pct, 1))

\* total_called_amount = total_fund_commitment * call_pct
total_called_amount(invs, c) == FloatTimesInt(SumCommitment(invs), call_pct(c))

(***************************************************************************)
(* Entry forms filled from an extraction result (show_fund_detail,         *)
(* show_reports)                                                           *)
(***************************************************************************)
\* date.today(), as a day number
Today == Date(100)

\* what json.loads hands back for a field of an extraction result
NumberValues == {Absent, Null, Num(5)}
DateValues == {Absent, Null, Date(31), Text}

\* analyze_capital_call_pdf_with_ai: the results json.loads can hand back
CallResults ==
    {r \in [CallFields -> NumberValues \cup DateValues] :
        /\ r.call_date \in DateValues /\ r.payment_date \in DateValues
        /\ \A k \in CallFields \ {"call_date", "payment_date"} :
              r[k] \in NumberValues}

\* analyze_quarterly_report_with_ai: the results json.loads can hand back
ReportResults ==
    {r \in [ReportFields -> NumberValues \cup DateValues \cup {Num(2), Num(2024)}] :
        /\ r.year \in {Absent, Num(2024)}
        /\ r.quarter \in {Null, Num(2)}
        /\ r.report_date \in DateValues
        /\ \A k \in ReportFields \ {"year", "quarter", "report_date"} :
              r[k] \in NumberValues}

\* d.get(k, default); d.get(k) has the default None
Get(d, k, default) == IF d[k] = Absent THEN default ELSE d[k]

\* bool(v): None, 0 and the empty string are false
Truthy(v) == v # Null /\ v # Num(0) /\ v # Absent

\* float(v): a number is converted, None and text that is no number raise
Float(v) == IF v[1] = "num" THEN v ELSE Raise

\* v or default
Or(v, default) == IF Truthy(v) THEN v ELSE default

\* def_date = date.today()
\* if d.get(k):
\*     try: def_date = datetime.strptime(d[k], "%Y-%m-%d").date()
\*     except: pass
DefaultDate(d, k) ==
    LET v == Get(d, k, Null)
    IN IF Truthy(v) /\ v[1] = "date" THEN v ELSE Today

\* the values the add_call form is built with; a field is Raise when the
\* expression of its value raises
CallForm(ai_data) ==
    [kind |-> "call",
     fields |-> [k \in CallFields |->
                    IF k \in {"call_date", "payment_date"}
                    THEN DefaultDate(ai_data, k)
                    ELSE Float(Get(ai_data, k, Num(0)))]]

\* the values the add_report form is built with
ReportForm(ai_rep) ==
    [kind |-> "report",
     fields |-> [k \in ReportFields |->
                    CASE k = "year" ->
                            IF Truthy(Get(ai_rep, k, Null)) THEN Get(ai_rep, k, Null)
                                                            ELSE Num(2025)
                      [] k = "quarter" ->
                            IF Get(ai_rep, k, Null) \in {Num(1), Num(2), Num(3), Num(4)}
                            THEN Get(ai_rep, k, Null) ELSE Num(1)
                      [] k = "report_date" -> DefaultDate(ai_rep, k)
                      [] OTHER -> Float(Or(Get(ai_rep, k, Null), Num(0)))]]

\* "Analyze Document Now" on a capital call notice
AnalyzeCall(s) ==
    /\ \E ai_result \in CallResults :
          session_state' = [session_state EXCEPT ![s].cc_ai_result = ai_result]
    /\ UNCHANGED audit_logs
    /\ hist' = [hist EXCEPT !.last = NoOp, !.called = {}]
    /\ UNCHANGED <<storeVars, cache, err, form>>

\* "Analyze Document Now" on a quarterly report, on the fund page
AnalyzeReport(s) ==
    /\ \E ai_result \in ReportResults :
          session_state' = [session_state EXCEPT ![s].rep_ai_result = ai_result]
    /\ UNCHANGED audit_logs
    /\ hist' = [hist EXCEPT !.last = NoOp, !.called = {}]
    /\ UNCHANGED <<storeVars, cache, err, form>>

\* "Analyze Document Now" on the reports page
AnalyzeGlobalReport(s) ==
    /\ \E ai_result \in ReportResults :
          session_state' =
              [session_state EXCEPT ![s].global_rep_ai_result = ai_result]
    /\ UNCHANGED audit_logs
    /\ hist' = [hist EXCEPT !.last = NoOp, !.called = {}]
    /\ UNCHANGED <<storeVars, cache, err, form>>

\* the script run that builds the form of key `key` from the result kept
ShowForm(s, key) ==
    /\ form' = [form EXCEPT ![s] =
                   IF key = "cc_ai_result"
                   THEN CallForm(session_state[s][key])
                   ELSE ReportForm(session_state[s][key])]
    /\ form' # form
    /\ UNCHANGED audit_logs
    /\ hist' = [hist EXCEPT !.last = NoOp, !.called = {}]
    /\ UNCHANGED <<storeVars, cache, err, session_state>>

(***************************************************************************)
(* Initial state and specifications                                        *)
(***************************************************************************)
Init ==
    /\ funds = {}
    /\ capital_calls = {}
    /\ distributions = {}
    /\ quarterly_reports = {}
    /\ investors = {}
    /\ lp_calls = {}
    /\ lp_payments = {}
    /\ nextId = [t \in Tables |-> 1]
    /\ cache = [s \in Sessions |-> [t \in Tables |-> Miss]]
    /\ err = [s \in Sessions |-> FALSE]
    /\ session_state = [s \in Sessions |-> NoResults]
    /\ form = [s \in Sessions |-> NoForm]
    /\ audit_logs = <<>>
    /\ hist = [last |-> NoOp, wrote |-> [s \in Sessions |-> FALSE],
               called |-> {}, settled |-> {},
               deleted |-> [s \in Sessions |-> {}]]

LedgerTables == {"funds", "capital_calls", "distributions", "quarterly_reports"}

\* the number of rows the store has been given so far in table t
Inserted(t) == nextId[t] - 1

\* One session working on the funds and their capital calls.
NextCalls ==
    \/ Render("s1", LedgerTables)
    \/ Refresh("s1")
    \/ Inserted("funds") < MaxFunds /\ CreateFund("s1", {"Alpha"}, CommitInputs, {"USD"}, {"Active"})
    \/ Inserted("capital_calls") < MaxCalls
           /\ RecordCall("s1", {}, CallAmounts, BOOLEAN)
    \/ Pending("s1") = {} /\ RequestDelete("s1", {"capital_calls"})
    \/ DeleteCall("s1") /\ AuditDown

SpecCalls == Init /\ [][NextCalls]_vars

\* One session saving and deleting quarterly reports.
NextReports ==
    \/ Render("s1", LedgerTables)
    \/ Refresh("s1")
    \/ Inserted("funds") < MaxFunds /\ CreateFund("s1", {"Alpha"}, {1}, {"USD"}, {"Active"})
    \/ Inserted("quarterly_reports") < MaxReports
           /\ SaveReport("s1", Quarters, NavInputs)
    \/ Pending("s1") = {} /\ RequestDelete("s1", {"quarterly_reports"})
    \/ DeleteReport("s1") /\ AuditDown

SpecReports == Init /\ [][NextReports]_vars

ChildRowsInserted ==
    Inserted("capital_calls") + Inserted("distributions")
        + Inserted("quarterly_reports")

\* One session filling the ledgers of the funds and deleting funds.
NextFund ==
    \/ Render("s1", LedgerTables)
    \/ Refresh("s1")
    \/ Inserted("funds") < MaxFunds /\ CreateFund("s1", {"Alpha"}, {1}, {"USD"}, {"Active"})
    \/ ChildRowsInserted < MaxChildRows /\ RecordCall("s1", {}, {1500}, {FALSE})
    \/ ChildRowsInserted < MaxChildRows /\ RecordDistribution("s1")
    \/ ChildRowsInserted < MaxChildRows /\ SaveReport("s1", {1}, {10})
    \/ Pending("s1") = {} /\ RequestDelete("s1", {"funds"})
    \/ DeleteFund("s1") /\ AuditDown

SpecFund == Init /\ [][NextFund]_vars

\* One session filling and deleting a fund, the store calls of the cascade
\* failing at any point.
NextCascade ==
    \/ Render("s1", LedgerTables)
    \/ Refresh("s1")
    \/ Inserted("funds") < MaxCascadeFunds /\ CreateFund("s1", {"Alpha"}, {1}, {"USD"}, {"Active"})
    \/ ChildRowsInserted < MaxCascadeRows /\ RecordCall("s1", {}, {1500}, {FALSE})
    \/ ChildRowsInserted < MaxCascadeRows /\ RecordDistribution("s1")
    \/ ChildRowsInserted < MaxCascadeRows /\ SaveReport("s1", {1}, {10})
    \/ Pending("s1") = {} /\ RequestDelete("s1", {"funds"})
    \/ DeleteFund("s1") /\ AuditDown

SpecCascade == Init /\ [][NextCascade]_vars

\* One session on the investors page: investors, LP calls and the payment
\* matrix.
NextLP ==
    \/ Render("s1", Tables)
    \/ Refresh("s1")
    \/ Inserted("investors") + Inserted("lp_calls") < MaxLpRows
           /\ AddInvestor("s1", {"Alpha"}, InvestorCommits) /\ AuditDown
    \/ Inserted("investors") + Inserted("lp_calls") < MaxLpRows
           /\ AddLpCall("s1", LpDates, LpPcts)
    \/ Pending("s1") = {} /\ RequestDelete("s1", {"lp_calls"})
    \/ DeleteLpCall("s1") /\ AuditDown
    \/ SavePayments("s1") /\ nextId'["lp_payments"] - 1 <= MaxPayments

SpecLP == Init /\ [][NextLP]_vars

\* One session adding and deleting LP calls, with few payment rows.
NextLpCalls ==
    \/ Render("s1", Tables)
    \/ Refresh("s1")
    \/ Inserted("investors") + Inserted("lp_calls") < MaxLpRows
           /\ AddInvestor("s1", {"Alpha"}, {1000000}) /\ AuditDown
    \/ Inserted("investors") + Inserted("lp_calls") < MaxLpRows
           /\ AddLpCall("s1", LpDates, LpPcts)
    \/ Pending("s1") = {} /\ RequestDelete("s1", {"lp_calls"})
    \/ DeleteLpCall("s1") /\ AuditDown
    \/ SavePayments("s1") /\ nextId'["lp_payments"] - 1 <= MaxCallPayments

SpecLpCalls == Init /\ [][NextLpCalls]_vars

\* One session saving the payment matrix, the store calls of the save loop
\* failing at any point.
NextSave ==
    \/ Render("s1", Tables)
    \/ Refresh("s1")
    \/ Inserted("investors") + Inserted("lp_calls") < MaxLpRows
           /\ AddInvestor("s1", {"Alpha"}, {1000000}) /\ AuditDown
    \/ Inserted("investors") + Inserted("lp_calls") < MaxLpRows
           /\ AddLpCall("s1", LpDates, LpPcts)
    \/ SavePayments("s1") /\ nextId'["lp_payments"] - 1 <= MaxCallPayments

SpecSave == Init /\ [][NextSave]_vars

RequiredPcts == {7, 10}

\* One session adding investors and LP calls; the totals of the summary are
\* looked at in floats.
NextRequired ==
    \/ Render("s1", Tables)
    \/ Refresh("s1")
    \/ Inserted("investors") + Inserted("lp_calls") < MaxLpRows
           /\ AddInvestor("s1", {"Alpha"}, InvestorCommits) /\ AuditDown
    \/ Inserted("investors") + Inserted("lp_calls") < MaxLpRows
           /\ AddLpCall("s1", {1}, RequiredPcts)
    \/ Pending("s1") = {} /\ RequestDelete("s1", {"lp_calls"})
    \/ DeleteLpCall("s1") /\ AuditDown

SpecRequired == Init /\ [][NextRequired]_vars

\* Two sessions on the payment matrix of one store; each has its own cache.
\* The first session enters the investors and the LP calls, both save.
NextShared ==
    \/ \E s \in Sessions : Render(s, Tables)
    \/ \E s \in Sessions : Refresh(s)
    \/ Inserted("investors") + Inserted("lp_calls") < MaxLpRows
           /\ AddInvestor("s1", {"Alpha"}, {1000000}) /\ AuditDown
    \/ Inserted("investors") + Inserted("lp_calls") < MaxLpRows
           /\ AddLpCall("s1", {1}, LpPcts)
    \/ \E s \in Sessions :
          SavePayments(s) /\ nextId'["lp_payments"] - 1 <= MaxPayments

SpecShared == Init /\ [][NextShared]_vars

\* Two sessions on the capital calls of one store while time goes by: the
\* first creates the fund, both read and record calls.
NextStale ==
    \/ \E s \in Sessions : Render(s, LedgerTables)
    \/ \E s \in Sessions : Refresh(s)
    \/ Tick
    \/ Inserted("funds") < MaxStaleFunds /\ CreateFund("s1", {"Alpha"}, {1}, {"USD"}, {"Active"})
    \/ \E s \in Sessions :
          Inserted("capital_calls") < MaxStaleCalls
              /\ RecordCall(s, {}, {1500}, {FALSE})
    \/ \E s \in Sessions : Pending(s) = {} /\ RequestDelete(s, {"capital_calls"})
    \/ \E s \in Sessions : DeleteCall(s) /\ AuditDown

SpecStale == Init /\ [][NextStale]_vars

\* the ledger and LP tables a script run reads
ReadTables == {"funds", "capital_calls", "distributions", "investors",
               "lp_calls", "lp_payments", "quarterly_reports"}

\* the rows the store has been given so far in all tables
RowsInserted ==
    Inserted("funds") + Inserted("capital_calls") + Inserted("distributions")
        + Inserted("investors") + Inserted("lp_calls")

\* One session whose reads may fail.
NextReads ==
    \/ RenderUnreliable("s1", ReadTables)
    \/ Refresh("s1")
    \/ RowsInserted < MaxReadRows /\ CreateFund("s1", {"Alpha"}, {0, 2000}, {"USD"}, {"Active"})
    \/ RowsInserted < MaxReadRows /\ RecordCall("s1", {}, {1500}, BOOLEAN)
    \/ RowsInserted < MaxReadRows /\ RecordDistribution("s1")
    \/ RowsInserted < MaxReadRows /\ AddInvestor("s1", {"Alpha"}, {1000000}) /\ AuditDown
    \/ RowsInserted < MaxReadRows /\ AddLpCall("s1", {1}, LpPcts)

SpecReads == Init /\ [][NextReads]_vars

\* the rows the store has been given so far in the tables of SpecWrites
WriteRowsInserted == RowsInserted + Inserted("quarterly_reports")

\* the handlers that make one store write
SingleWrites(s) ==
    \/ WriteRowsInserted < MaxWriteRows /\ CreateFund(s, {"Alpha"}, {1}, {"USD"}, {"Active"})
    \/ EditFund(s, {"Alpha"}, {2000}, {"USD"}, {"Active"}) /\ AuditDown
    \/ WriteRowsInserted < MaxWriteRows /\ RecordCall(s, {}, {1500}, {FALSE})
    \/ DeleteCall(s) /\ AuditDown
    \/ WriteRowsInserted < MaxWriteRows /\ RecordDistribution(s)
    \/ DeleteDistribution(s) /\ AuditDown
    \/ WriteRowsInserted < MaxWriteRows /\ SaveReport(s, {1}, {10})
    \/ DeleteReport(s) /\ AuditDown
    \/ WriteRowsInserted < MaxWriteRows /\ AddInvestor(s, {"Alpha"}, {1000000}) /\ AuditDown
    \/ EditInvestor(s, {"Alpha"}, {2000000}) /\ AuditDown
    \/ DeleteInvestor(s) /\ AuditDown
    \/ WriteRowsInserted < MaxWriteRows /\ AddLpCall(s, {1}, LpPcts)
    \/ EditLpCall(s, {2}, LpPcts) /\ AuditDown
    \/ DeleteLpCall(s) /\ AuditDown

\* One session using every form that makes one store write.
NextWrites ==
    \/ Render("s1", Tables)
    \/ Refresh("s1")
    \/ Pending("s1") = {} /\ RequestDelete("s1", {"capital_calls", "distributions", "quarterly_reports",
                            "investors", "lp_calls"})
    \/ SingleWrites("s1")

SpecWrites == Init /\ [][NextWrites]_vars

\* One session analysing one document and looking at the form filled from it.
NextForms ==
    \/ session_state["s1"] = NoResults /\ AnalyzeCall("s1")
    \/ session_state["s1"] = NoResults /\ AnalyzeReport("s1")
    \/ session_state["s1"] = NoResults /\ AnalyzeGlobalReport("s1")
    \/ \E key \in FormKeys : ShowForm("s1", key)

SpecForms == Init /\ [][NextForms]_vars

\* One session adding and deleting investors while LP calls and payment rows
\* exist.
NextNoInvestors ==
    \/ Render("s1", Tables)
    \/ Refresh("s1")
    \/ Inserted("investors") + Inserted("lp_calls") < MaxLpRows
           /\ AddInvestor("s1", {"Alpha"}, {1000000}) /\ AuditDown
    \/ Inserted("investors") + Inserted("lp_calls") < MaxLpRows
           /\ AddLpCall("s1", {1}, LpPcts)
    \/ Pending("s1") = {} /\ RequestDelete("s1", {"investors"})
    \/ DeleteInvestor("s1") /\ AuditDown
    \/ SavePayments("s1") /\ nextId'["lp_payments"] - 1 <= MaxCallPayments

SpecNoInvestors == Init /\ [][NextNoInvestors]_vars

\* what is typed and picked in the forms of a fund
TypedCommits == {0 - 1, 0, 2000}
PickedCurrencies == {"USD", "EUR", "GBP"}
PickedStatuses == {"Active", "Closed", "Exited", "Frozen"}

\* One session creating funds and editing them.
NextFundFields ==
    \/ Render("s1", LedgerTables)
    \/ Refresh("s1")
    \/ Inserted("funds") < MaxFieldFunds
           /\ CreateFund("s1", {"Alpha"}, TypedCommits, PickedCurrencies, PickedStatuses)
    \/ EditFund("s1", {"Alpha"}, TypedCommits, PickedCurrencies, PickedStatuses) /\ AuditDown

SpecFundFields == Init /\ [][NextFundFields]_vars

\* commitments typed into the forms of an investor, rows of an uploaded sheet
TypedInvestorCommits == {0 - 500, 0, 1000000}
SheetRows == {[name |-> "Alpha", commit |-> Num(0 - 500)],
              [name |-> "Beta", commit |-> Text],
              [name |-> "", commit |-> Num(7)]}
Sheets == {[columns |-> 2, rows |-> <<r>>] : r \in SheetRows}
              \cup {[columns |-> 2, rows |-> <<r, q>>] : r, q \in SheetRows}
              \cup {[columns |-> 1, rows |-> <<>>]}

\* One session entering, uploading and editing investors.
NextInvestorFields ==
    \/ Render("s1", Tables)
    \/ Refresh("s1")
    \/ Inserted("investors") < MaxInvestors
           /\ AddInvestor("s1", {"Alpha"}, TypedInvestorCommits) /\ AuditDown
    \/ UploadInvestors("s1", Sheets) /\ AuditDown /\ Inserted("investors")' <= MaxInvestors
    \/ EditInvestor("s1", {"Alpha"}, TypedInvestorCommits) /\ AuditDown

SpecInvestorFields == Init /\ [][NextInvestorFields]_vars

\* the tables whose records have a delete button
DeletableTables == {"funds", "capital_calls", "distributions",
                    "quarterly_reports", "investors", "lp_calls"}

\* the rows inserted in the tables of SpecDelete
DeleteRowsInserted ==
    Inserted("funds") + Inserted("capital_calls") + Inserted("distributions")
        + Inserted("quarterly_reports") + Inserted("investors")
        + Inserted("lp_calls")

\* Two sessions; the first enters records, both ask for deletes, one at a
\* time, cancel and confirm them.
NextDelete ==
    \/ \E s \in Sessions : Render(s, Tables)
    \/ DeleteRowsInserted < MaxDeleteRows
           /\ CreateFund("s1", {"Alpha"}, {1}, {"USD"}, {"Active"})
    \/ DeleteRowsInserted < MaxDeleteRows /\ RecordCall("s1", {}, {1500}, {FALSE})
    \/ DeleteRowsInserted < MaxDeleteRows /\ RecordDistribution("s1")
    \/ DeleteRowsInserted < MaxDeleteRows /\ SaveReport("s1", {1}, {10})
    \/ DeleteRowsInserted < MaxDeleteRows
           /\ AddInvestor("s1", {"Alpha"}, {1000000}) /\ AuditDown
    \/ DeleteRowsInserted < MaxDeleteRows /\ AddLpCall("s1", {1}, LpPcts)
    \/ \E s \in Sessions :
          Pending(s) = {} /\ RequestDelete(s, DeletableTables)
    \/ \E s \in Sessions : CancelDelete(s)
    \/ \E s \in Sessions : DeleteFund(s) /\ AuditDown
    \/ \E s \in Sessions : DeleteCall(s) /\ AuditDown
    \/ \E s \in Sessions : DeleteDistribution(s) /\ AuditDown
    \/ \E s \in Sessions : DeleteReport(s) /\ AuditDown
    \/ \E s \in Sessions : DeleteInvestor(s) /\ AuditDown
    \/ \E s \in Sessions : DeleteLpCall(s) /\ AuditDown

SpecDelete == Init /\ [][NextDelete]_vars

\* One session recording calls under the number the form proposes, and
\* deleting calls.
NextNumbers ==
    \/ Render("s1", LedgerTables)
    \/ Refresh("s1")
    \/ Inserted("funds") < MaxNumberedFunds
           /\ CreateFund("s1", {"Alpha"}, {1}, {"USD"}, {"Active"})
    \/ Inserted("capital_calls") < MaxNumberedCalls
           /\ RecordCall("s1", {}, {1500}, {FALSE})
    \/ Pending("s1") = {} /\ RequestDelete("s1", {"capital_calls"})
    \/ DeleteCall("s1") /\ AuditDown

SpecNumbers == Init /\ [][NextNumbers]_vars

\* One session on the investors page while reads may fail and time goes by.
NextFailedRead ==
    \/ RenderUnreliable("s1", LPTables)
    \/ Refresh("s1")
    \/ Tick
    \/ Inserted("investors") + Inserted("lp_calls") < MaxFailedReadRows
           /\ AddInvestor("s1", {"Alpha"}, {1000000}) /\ AuditDown
    \/ Inserted("investors") + Inserted("lp_calls") < MaxFailedReadRows
           /\ AddLpCall("s1", {1}, {10})
    \/ SavePayments("s1") /\ Inserted("lp_payments")' <= MaxFailedReadPayments

SpecFailedRead == Init /\ [][NextFailedRead]_vars

\* One session on the investors page whose reads may fail: investors are
\* added and deleted, the matrix is saved.
NextReceived ==
    \/ RenderUnreliable("s1", LPTables)
    \/ Inserted("investors") + Inserted("lp_calls") < MaxReceivedRows
           /\ AddInvestor("s1", {"Alpha"}, {1000000}) /\ AuditDown
    \/ Inserted("investors") + Inserted("lp_calls") < MaxReceivedRows
           /\ AddLpCall("s1", {1}, {10})
    \/ Pending("s1") = {} /\ RequestDelete("s1", {"investors"})
    \/ DeleteInvestor("s1") /\ AuditDown
    \/ SavePayments("s1") /\ Inserted("lp_payments")' <= MaxReceivedPayments

SpecReceived == Init /\ [][NextReceived]_vars

\* the deletes and updates that are logged, as session s runs them
LoggedHandler(s, name) ==
    CASE name = "DeleteFund" -> DeleteFund(s)
      [] name = "DeleteCall" -> DeleteCall(s)
      [] name = "DeleteDistribution" -> DeleteDistribution(s)
      [] name = "DeleteReport" -> DeleteReport(s)
      [] name = "DeleteInvestor" -> DeleteInvestor(s)
      [] name = "DeleteLpCall" -> DeleteLpCall(s)
      [] name = "EditFund" -> EditFund(s, {"Alpha"}, {2000}, {"USD"}, {"Active"})
      [] name = "EditInvestor" -> EditInvestor(s, {"Alpha"}, {2000000})
      [] name = "EditLpCall" -> EditLpCall(s, {2}, LpPcts)

\* One session entering records, deleting and updating them while the inserts
\* into audit_logs succeed or raise.
NextAudit ==
    \/ Render("s1", Tables)
    \/ DeleteRowsInserted < MaxAuditRows
           /\ CreateFund("s1", {"Alpha"}, {1}, {"USD"}, {"Active"})
    \/ DeleteRowsInserted < MaxAuditRows /\ RecordCall("s1", {}, {1500}, {FALSE})
    \/ DeleteRowsInserted < MaxAuditRows /\ RecordDistribution("s1")
    \/ DeleteRowsInserted < MaxAuditRows /\ SaveReport("s1", {1}, {10})
    \/ DeleteRowsInserted < MaxAuditRows
           /\ AddInvestor("s1", {"Alpha"}, {1000000})
           /\ Len(audit_logs') <= MaxAuditEntries
    \/ DeleteRowsInserted < MaxAuditRows /\ AddLpCall("s1", {1}, LpPcts)
    \/ Pending("s1") = {} /\ RequestDelete("s1", DeletableTables)
    \/ \E name \in LoggedFirst :
          LoggedHandler("s1", name) /\ Len(audit_logs') <= MaxAuditEntries

SpecAudit == Init /\ [][NextAudit]_vars

\* the rows inserted in the tables of SpecListings
ListRowsInserted ==
    Inserted("funds") + Inserted("investors") + Inserted("quarterly_reports")

\* One session entering funds, investors and reports under several names and
\* periods and listing them.
NextListings ==
    \/ Render("s1", Tables)
    \/ Refresh("s1")
    \/ ListRowsInserted < MaxListRows
           /\ CreateFund("s1", {Names[i] : i \in DOMAIN Names}, {1}, {"USD"},
                         {"Active"})
    \/ ListRowsInserted < MaxListRows
           /\ AddInvestor("s1", {Names[i] : i \in DOMAIN Names}, {1000000}) /\ AuditDown
    \/ ListRowsInserted < MaxListRows /\ SaveReport("s1", Quarters, {10})

SpecListings == Init /\ [][NextListings]_vars

\* percentages typed into the forms of the LP calls
TypedPcts == {0 - 5, 0, 100, 150}

\* One session adding LP calls and editing them.
NextLpPct ==
    \/ Render("s1", Tables)
    \/ Refresh("s1")
    \/ Inserted("investors") + Inserted("lp_calls") < MaxLpRows
           /\ AddInvestor("s1", {"Alpha"}, {1000000}) /\ AuditDown
    \/ Inserted("investors") + Inserted("lp_calls") < MaxLpRows
           /\ AddLpCall("s1", {1}, TypedPcts)
    \/ EditLpCall("s1", {1}, TypedPcts) /\ AuditDown

SpecLpPct == Init /\ [][NextLpPct]_vars

(***************************************************************************)
(* Claims about the capital call ledger                                    *)
(***************************************************************************)
\* the realized (not future) calls of a fund in the store
RealizedInStore(fund_id) ==
    {c \in capital_calls : c.fund_id = fund_id /\ ~c.is_future}

\* C1: whenever the session that records and deletes the calls shows the
\* portfolio page, it shows every fund of the store, and the uncalled balance
\* of each is the fund's commitment minus the amounts of the fund's realized
\* calls in the store, with no floor at zero.
C1_UncalledIsCommitmentMinusRealized ==
    PortfolioShown("s1") =>
        /\ get_funds("s1") = funds
        /\ \A fund \in get_funds("s1") :
              Uncalled("s1", fund) =
                  fund.commitment - SumAmount(RealizedInStore(fund.id))

\* C1, witness: after calls were recorded and one was deleted, a fund whose
\* realized calls exceed its commitment is shown with a negative balance.
C1_Witness ==
    /\ PortfolioShown("s1")
    /\ nextId["capital_calls"] - 1 > Cardinality(capital_calls)
    /\ \E fund \in get_funds("s1") :
          /\ RealizedInStore(fund.id) # {}
          /\ fund.commitment > 0
          /\ Uncalled("s1", fund) < 0

\* C2: the fund detail view, the overview table and the master Excel export
\* all report, for every fund, the sum of the amounts of the fund's calls that
\* are not future.
C2_TotalCalledSameEverywhere ==
    PortfolioShown("s1") =>
        \A fund \in get_funds("s1") :
            LET realized ==
                    SumAmount({c \in get_capital_calls("s1", fund.id) : ~c.is_future})
            IN /\ DetailTotalCalled("s1", fund) = realized
               /\ OverviewTotalCalled("s1", fund) = realized
               /\ ExcelTotalCalled("s1", fund) = realized

(***************************************************************************)
(* Claims about quarterly reports, the fund cascade and the cache          *)
(***************************************************************************)
SamePeriod(r, q) ==
    r.fund_id = q.fund_id /\ r.year = q.year /\ r.quarter = q.quarter

\* C7: there is at most one quarterly_reports row per (fund_id, year,
\* quarter), and after a report save the saved row is the only row of its
\* period.
C7_OneRowPerPeriod ==
    /\ \A r, q \in quarterly_reports : SamePeriod(r, q) => r = q
    /\ (hist.last.op = "SaveReport" /\ hist.last.ok) =>
           \A r, q \in quarterly_reports :
               (r.id = hist.last.id /\ SamePeriod(r, q)) => q = r

\* C8: a fund deletion whose four store calls all succeed removes the fund
\* row and every capital call, distribution and quarterly report of that fund,
\* and leaves every other row of the four tables as it was.
C8_DeleteFundRemovesFundAndChildren ==
    [][\A fund \in funds :
          hist'.last = Op("DeleteFund", "s1", TRUE, fund.id) =>
              /\ funds' = funds \ {fund}
              /\ capital_calls' = {c \in capital_calls : c.fund_id # fund.id}
              /\ distributions' = {d \in distributions : d.fund_id # fund.id}
              /\ quarterly_reports' =
                     {r \in quarterly_reports : r.fund_id # fund.id}
              /\ \A c \in capital_calls' \cup distributions'
                                         \cup quarterly_reports' :
                     c.fund_id # fund.id]_vars

\* C8, witness: a fund that had rows in a child table has just been deleted
\* while another fund keeps a row of its own.
C8_Witness ==
    /\ hist.last.op = "DeleteFund" /\ hist.last.ok
    /\ \A f \in funds : f.id # hist.last.id
    /\ ChildRowsInserted >
           Cardinality(capital_calls) + Cardinality(distributions)
               + Cardinality(quarterly_reports)
    /\ \E f \in funds :
           \E c \in capital_calls \cup distributions \cup quarterly_reports :
               c.fund_id = f.id

\* C10: a session that has changed the store holds no cached table: its cache
\* was cleared by the handler that made the change.
C10_CacheClearedAfterOwnWrite ==
    \A s \in Sessions :
        hist.wrote[s] => \A t \in Tables : ~cache[s][t].loaded

(***************************************************************************)
(* Claims about LP calls and the payment matrix                            *)
(***************************************************************************)
\* the value the claims give the summary row of call c, from the whole
\* lp_payments list `rows` of a snapshot
SummaryRowClaimed(invs, rows, c) ==
    LET T == SumCommitment(invs)
        paid == {inv \in invs :
                    \E p \in rows : /\ p.lp_call_id = c.id
                                    /\ p.investor_id = inv.id
                                    /\ p.is_paid}
    IN [call |-> c.id,
        required |-> T * c.call_pct,
        received |-> SumCommitment(paid) * c.call_pct,
        outstanding |-> T * c.call_pct - SumCommitment(paid) * c.call_pct]

\* C3: for every snapshot (investors, lp_calls, lp_payments) and every LP call
\* c of it, Total Required is T*p, Total Received is p times the commitments
\* of the investors that have a payment row for c with is_paid true (no row
\* counts as unpaid), Outstanding is their difference, and the overview page
\* and the investors page show the same values.
C3_SummaryFromSnapshot ==
    \A s \in Sessions :
        LPShown(s) =>
            /\ \A c \in get_lp_calls(s) :
                  LET claimed == SummaryRowClaimed(get_investors(s),
                                                   get_lp_payments(s), c)
                  IN /\ claimed \in OverviewSummary(s)
                     /\ get_investors(s) # {} => claimed \in InvestorsSummary(s)
            /\ get_investors(s) # {} => OverviewSummary(s) = InvestorsSummary(s)

\* required(investor, c) = investor.commitment * p
required(inv, c) == FloatTimesInt(inv.commitment, call_pct(c))

RECURSIVE RequiredSums(_, _)
\* the values the sum of required(investor, c) over invs can have, the
\* investors taken in any order
RequiredSums(invs, c) ==
    IF invs = {} THEN {Normal(<<>>, 0)}
    ELSE UNION {{FloatPlus(x, required(inv, c)) :
                    x \in RequiredSums(invs \ {inv}, c)} : inv \in invs}

\* |x - y| <= y / 2^k
Within(x, y, k) ==
    LET e == IF x.e < y.e THEN x.e ELSE y.e
        X == Zeros(x.e - e) \o x.m
        Y == Zeros(y.e - e) \o y.m
        D == IF BitsLeq(X, Y) THEN BitsMinus(Y, X) ELSE BitsMinus(X, Y)
    IN BitsLeq(Zeros(k) \o D, Y)

RowsOfCell(rows, t) ==
    {p \in rows : p.lp_call_id = t[1] /\ p.investor_id = t[2]}

\* C5: a setPaymentStatus call with the (lpCallId, investorId, isPaid) of the
\* call that last returned for that cell writes nothing to lp_payments, neither
\* an update nor an insert.
C5_SecondCallWritesNothing ==
    [][\A t \in hist.settled \cap hist'.settled :
          RowsOfCell(lp_payments', t) = RowsOfCell(lp_payments, t)]_vars

\* C6: lp_payments holds at most one row per (lp_call_id, investor_id).
C6_OneRowPerPair ==
    \A p, q \in lp_payments : SamePair(p, q) => p = q

\* C9: after a session has deleted an LP call, both summaries and the matrix
\* columns it computes range over the remaining LP calls only, and they are
\* what they would be without the payment rows of the deleted calls.
C9_DeletedCallIgnored ==
    \A s \in Sessions :
        LPShown(s) =>
            LET gone == hist.deleted[s]
                invs == get_investors(s)
                calls == get_lp_calls(s)
                first == cache[s]["lp_payments"].first
                kept == {p \in first : p.lp_call_id \notin gone}
            IN /\ \A r \in OverviewSummary(s) \cup InvestorsSummary(s) :
                     /\ r.call \notin gone
                     /\ \E c \in lp_calls : c.id = r.call
               /\ OverviewSummary(s) = OverviewSummaryOf(invs, calls, kept)
               /\ InvestorsSummary(s) = InvestorsSummaryOf(invs, calls, kept)
               /\ \A m \in ColMappings(calls) :
                     /\ \A n \in DOMAIN m : /\ m[n].id \notin gone
                                            /\ m[n] \in lp_calls
                     /\ MatrixOf(invs, m, first) = MatrixOf(invs, m, kept)

\* the session has deleted an LP call that an investor had paid, the row of
\* that payment is still in the list it reads, and another call is shown
C9_Witness ==
    /\ LPShown("s1")
    /\ InvestorsSummary("s1") # {}
    /\ \E p \in cache["s1"]["lp_payments"].first :
          /\ p.lp_call_id \in hist.deleted["s1"]
          /\ p.is_paid
          /\ \E inv \in get_investors("s1") : inv.id = p.investor_id

\* the status the snapshot of session s shows for the cell of payment row p:
\* the first row of the pair, a missing row counting as unpaid
SnapshotPaid(s, p) ==
    \E q \in cache[s]["lp_payments"].first : SamePair(p, q) /\ q.is_paid

\* C11: a payment-matrix save writes only the cells whose edited value differs
\* from the value in the last-read snapshot, a missing row counting as unpaid:
\* every row a save inserts or changes carries the status the snapshot did not
\* show for its cell.
C11_SaveWritesChangedCellsOnly ==
    [][\A p \in lp_payments' :
          p \notin lp_payments => p.is_paid # SnapshotPaid(hist'.last.s, p)]_vars

\* the checkboxes <<investor id, column name>> of the matrix session s shows
MatrixCells(s) ==
    {inv.id : inv \in get_investors(s)} \X ColNames(get_lp_calls(s))

\* the checkboxes whose setPaymentStatus call returned in the last save
CellsDone(s, called) ==
    {cell \in MatrixCells(s) :
        \E t \in called, c \in get_lp_calls(s) :
           c.id = t[1] /\ ColName(c) = cell[2] /\ t[2] = cell[1]}

\* the cells D follow the enumeration order: whole investor rows and, in at
\* most one further row, the columns of the earliest dates
RowMajorPrefix(s, D) ==
    \E i \in {cell[1] : cell \in MatrixCells(s)} :
       /\ \A cell \in MatrixCells(s) :
             cell[1] # i =>
                (cell \in D <=> \A other \in MatrixCells(s) :
                                   other[1] = cell[1] => other \in D)
       /\ \A cell \in D, other \in MatrixCells(s) \ D :
             cell[1] = i /\ other[1] = i => cell[2][1] <= other[2][1]

C13_LastWriteWins ==
    [][hist'.last.op = "SavePayments" =>
          \A t \in hist'.called :
             LET s == hist'.last.s
                 existing == RowsOfCell(cache[s]["lp_payments"].first, t)
             IN /\ RowsOfCell(lp_payments, t)
                      # RowsOfCell(cache[s]["lp_payments"].rows, t)
                /\ \A e \in existing : e.is_paid # t[3]
                => \A p \in RowsOfCell(lp_payments', t) : p.is_paid = t[3]]_vars

\* the rows of the three child tables
ChildRows == capital_calls \cup distributions \cup quarterly_reports

\* a child row whose fund is not in the funds table
Orphan(r) == \A f \in funds : f.id # r.fund_id

\* C14: with one session writing, no capital call, distribution or quarterly
\* report references a fund that is not in the store, whichever store call of
\* a fund-delete cascade fails: the funds row is deleted last, so a failed
\* cascade leaves the fund in place with some of its children removed.
C14_FailedCascadeLeavesNoOrphan ==
    \A r \in ChildRows : ~Orphan(r)

\* C14 as stated: a fund-delete cascade that fails after it has deleted rows,
\* while rows of the fund are left in the child tables, leaves a child row
\* that references a fund no longer in the store.
C14_FailedCascadeOrphansChildren ==
    [][/\ hist'.last.op = "DeleteFund" /\ ~hist'.last.ok
       /\ ChildRows' # ChildRows
       /\ \E r \in ChildRows' : r.fund_id = hist'.last.id
       => \E r \in ChildRows' : \A f \in funds' : f.id # r.fund_id]_vars

\* a cascade has failed after deleting rows of the fund: the fund is still in
\* the store and so is one of its child rows
C14_Witness ==
    /\ hist.last.op = "DeleteFund" /\ ~hist.last.ok
    /\ hist.wrote["s1"]
    /\ err["s1"]
    /\ \E f \in funds : f.id = hist.last.id
    /\ \E r \in ChildRows : r.fund_id = hist.last.id
    /\ ChildRowsInserted > Cardinality(ChildRows)

ReadFailed(s, t) == cache[s][t].loaded /\ cache[s][t].failed

\* what the rollups of the pages come to when the read of a table has failed,
\* the Called % apart
RollupsOfFailedRead(s) ==
    /\ \A t \in Tables : ReadFailed(s, t) => cache[s][t].rows = {}
    /\ ReadFailed(s, "funds") => get_funds(s) = {}
    /\ ReadFailed(s, "capital_calls") =>
           \A fund \in get_funds(s) :
              /\ DetailTotalCalled(s, fund) = 0
              /\ OverviewTotalCalled(s, fund) = 0
              /\ ExcelTotalCalled(s, fund) = 0
              /\ Uncalled(s, fund) = fund.commitment
    /\ ReadFailed(s, "distributions") =>
           \A fund \in get_funds(s) : TotalDist(s, fund) = 0
    /\ ReadFailed(s, "quarterly_reports") =>
           \A fund \in get_funds(s) : get_quarterly_reports(s, fund.id) = {}
    /\ ReadFailed(s, "investors") =>
           /\ SumCommitment(get_investors(s)) = 0
           /\ InvestorsSummary(s) = {}
           /\ \A row \in OverviewSummary(s) :
                 row.required = 0 /\ row.received = 0 /\ row.outstanding = 0
    /\ ReadFailed(s, "lp_calls") =>
           OverviewSummary(s) = {} /\ InvestorsSummary(s) = {}
    /\ ReadFailed(s, "lp_payments") =>
           \A row \in OverviewSummary(s) \cup InvestorsSummary(s) :
              row.received = 0 /\ row.outstanding = row.required

\* C16: a ledger read that fails returns the empty list and every rollup
\* computed from it has a value: the totals are 0, the uncalled balance is the
\* commitment, the LP summaries are empty or 0; with the capital calls unread
\* the Called % of a fund is 0.0% when its commitment is positive and the
\* placeholder when it is 0.
C16_FailedReadGivesEmptyRollups ==
    \A s \in Sessions :
       /\ RollupsOfFailedRead(s)
       /\ ReadFailed(s, "capital_calls") =>
              \A fund \in get_funds(s) :
                 LET shown == IF fund.commitment > 0 THEN {Pct(0)}
                                                     ELSE {Placeholder}
                 IN /\ OverviewCalledPct(s, fund) = shown
                    /\ DetailCalledPct(s, fund) = shown

\* C16 as stated: a ledger read that fails returns the empty list and every
\* rollup computed from it has a value, the totals 0 and the Called % the
\* placeholder.
C16_FailedReadGivesPlaceholder ==
    \A s \in Sessions :
       /\ RollupsOfFailedRead(s)
       /\ ReadFailed(s, "capital_calls") =>
              \A fund \in get_funds(s) :
                 /\ OverviewCalledPct(s, fund) = {Placeholder}
                 /\ DetailCalledPct(s, fund) = {Placeholder}

\* the read of the capital calls has failed while the funds were read: a fund
\* with a positive commitment and a call in the store is shown without calls
C16_Witness ==
    /\ ReadFailed("s1", "capital_calls")
    /\ ~ReadFailed("s1", "funds")
    /\ \E fund \in get_funds("s1") :
          /\ fund.commitment > 0
          /\ \E c \in capital_calls : c.fund_id = fund.id /\ ~c.is_future
          /\ DetailTotalCalled("s1", fund) = 0

\* the handlers of C17
SingleWriteOps ==
    {"CreateFund", "EditFund", "RecordCall", "DeleteCall", "RecordDistribution",
     "DeleteDistribution", "SaveReport", "DeleteReport", "AddInvestor",
     "EditInvestor", "DeleteInvestor", "AddLpCall", "EditLpCall", "DeleteLpCall"}

\* C17: when the store write of a single-row handler fails, the error is
\* shown, every table is as it was before the handler (nothing is written and
\* nothing is tried again), the session keeps the lists it had read, and it
\* can go on: a further script run or form of the session is possible.
C17_FailedSingleWriteChangesNothing ==
    /\ [][hist'.last.op \in SingleWriteOps /\ ~hist'.last.ok =>
             /\ storeVars' = storeVars
             /\ err'[hist'.last.s]
             /\ cache' = cache]_vars
    /\ [](hist.last.op \in SingleWriteOps /\ ~hist.last.ok =>
             ENABLED (Refresh(hist.last.s) \/ SingleWrites(hist.last.s)))

\* the edit of a fund's commitment has failed: the error is on screen and the
\* fund has the commitment it was created with
C17_Witness ==
    /\ hist.last = Op("EditFund", "s1", FALSE, hist.last.id)
    /\ err["s1"]
    /\ \E fund \in funds : fund.id = hist.last.id /\ fund.commitment = 1000000

\* the fields of a form that are numbers, and those that are dates
NumberFields == {"amount", "investments", "mgmt_fee", "fund_expenses",
                 "nav", "tvpi", "dpi", "rvpi", "irr"}
DateFields == {"call_date", "payment_date", "report_date"}

\* the extraction result the form of session s was built from
ResultOfForm(s) ==
    IF form[s].kind = "call" THEN {session_state[s].cc_ai_result}
    ELSE {session_state[s].rep_ai_result, session_state[s].global_rep_ai_result}

\* C18: whatever fields of the extraction result are absent or null, the
\* capital-call form and the quarterly-report forms are built without an
\* exception: a numeric field (amount, investments, mgmt_fee, fund_expenses,
\* nav, tvpi, dpi, rvpi, irr) that is absent or null has the value 0, a date
\* that is absent, null or unparsable is today.
C18_FormsBuiltFromAnyResult ==
    \A s \in Sessions :
       form[s] # NoForm =>
          /\ \A k \in DOMAIN form[s].fields : form[s].fields[k] # Raise
          /\ \E r \in ResultOfForm(s) :
                \A k \in DOMAIN form[s].fields :
                   /\ k \in NumberFields /\ r[k] \in {Absent, Null} =>
                          form[s].fields[k] = Num(0)
                   /\ k \in DateFields /\ r[k] \in {Absent, Null, Text} =>
                          form[s].fields[k] = Today

\* C19: a session whose investors list is empty is shown, on the overview, a
\* summary row for every LP call of its list with required, received and
\* outstanding all 0, whatever LP calls and payment rows it has read; the
\* investors page stops before its summary.
C19_NoInvestorsAllZero ==
    \A s \in Sessions :
       LPShown(s) /\ get_investors(s) = {} =>
          /\ {row.call : row \in OverviewSummary(s)}
                 = {c.id : c \in get_lp_calls(s)}
          /\ \A row \in OverviewSummary(s) :
                row.required = 0 /\ row.received = 0 /\ row.outstanding = 0
          /\ InvestorsSummary(s) = {}

\* the last investor has been deleted: the session has read no investor, an
\* LP call and a payment row marked paid for that call
C19_Witness ==
    /\ LPShown("s1")
    /\ get_investors("s1") = {}
    /\ \E c \in get_lp_calls("s1"), p \in get_lp_payments("s1") :
          p.lp_call_id = c.id /\ p.is_paid

\* the percentages with one decimal that show total / commitment: those
\* within half a tenth of a percent of it, in no way capped
ShowsQuotient(shown, total, commitment) ==
    /\ shown # {}
    /\ \A x \in shown :
          /\ x[1] = "pct"
          /\ 2 * (x[2] * commitment - 1000 * total) <= commitment
          /\ 2 * (1000 * total - x[2] * commitment) <= commitment

\* C20: in the overview table and in the fund detail view the called % of a
\* fund is totalCalled / commitment, totalCalled being the sum of the fund's
\* calls that are not future, when the commitment is positive, above 100% when
\* the calls exceed the commitment; it is the placeholder when the commitment
\* is 0.
C20_CalledPctIsTotalOverCommitment ==
    \A s \in Sessions :
       PortfolioShown(s) =>
          \A fund \in get_funds(s) :
             LET totalCalled ==
                     SumAmount({c \in get_capital_calls(s, fund.id) : ~c.is_future})
             IN IF fund.commitment > 0
                THEN /\ ShowsQuotient(OverviewCalledPct(s, fund), totalCalled,
                                      fund.commitment)
                     /\ ShowsQuotient(DetailCalledPct(s, fund), totalCalled,
                                      fund.commitment)
                ELSE /\ OverviewCalledPct(s, fund) = {Placeholder}
                     /\ DetailCalledPct(s, fund) = {Placeholder}

(***************************************************************************)
(* Claims about the validation of what the forms store                     *)
(***************************************************************************)
\* C21: every LP call in the store, after any sequence of "Add LP Call" and of
\* edits of an LP call, has a call_pct from 0 to 100.
C21_CallPctWithinRange ==
    \A c \in lp_calls : 0 <= c.call_pct /\ c.call_pct <= 100

\* C22: after any sequence of fund creations and fund edits every fund of the
\* store has a commitment that is not negative, the currency USD or EUR and
\* the status active, closed or exited.
C22_FundFieldsValid ==
    \A fund \in funds :
       /\ fund.commitment >= 0
       /\ fund.currency \in {"USD", "EUR"}
       /\ fund.status \in {"active", "closed", "exited"}

\* a fund created in USD and active has been edited to EUR, exited and the
\* commitment 0
C22_Witness ==
    /\ hist.last = Op("EditFund", "s1", TRUE, hist.last.id)
    /\ \E fund \in funds :
          /\ fund.id = hist.last.id
          /\ fund.commitment = 0
          /\ fund.currency = "EUR"
          /\ fund.status = "exited"

\* C23: after any sequence of "Save Investor", bulk uploads and edits of an
\* investor, every investor of the store has a commitment that is not
\* negative.
C23_InvestorCommitmentNotNegative ==
    \A inv \in investors : inv.commitment >= 0

(***************************************************************************)
(* Claims about the listings                                               *)
(***************************************************************************)
OrderedByName(l) ==
    \A i, j \in DOMAIN l : i < j => NameRank(l[i].name) <= NameRank(l[j].name)

OrderedByPeriod(l) ==
    \A i, j \in DOMAIN l :
       i < j => KeyLeq(<<l[i].year, l[i].quarter>>, <<l[j].year, l[j].quarter>>)

\* a is a sublist of b: the rows of a are rows of b, in the order of b
Sublist(a, b) ==
    \E f \in [DOMAIN a -> DOMAIN b] :
       /\ \A i \in DOMAIN a : a[i] = b[f[i]]
       /\ \A i, j \in DOMAIN a : i < j => f[i] < f[j]

\* C24: every list of funds and every list of investors a session reads is
\* ordered by name, the reports listed for a fund are ordered by (year,
\* quarter), and the list of a fund's reports is the cached list of all
\* reports without the rows of the other funds, in the same order.
C24_ListingsOrdered ==
    \A s \in Sessions :
       /\ cache[s]["funds"].loaded =>
              \A l \in Listings("funds", cache[s]["funds"].rows) : OrderedByName(l)
       /\ cache[s]["investors"].loaded =>
              \A l \in Listings("investors", cache[s]["investors"].rows) :
                 OrderedByName(l)
       /\ cache[s]["quarterly_reports"].loaded =>
              \A l \in Listings("quarterly_reports",
                                cache[s]["quarterly_reports"].rows) :
                 \A fund \in funds :
                    /\ OrderedByPeriod(FilterByFund(l, fund.id))
                    /\ Sublist(FilterByFund(l, fund.id), l)
                    /\ \A i \in DOMAIN l :
                          l[i].fund_id = fund.id =>
                             \E k \in DOMAIN FilterByFund(l, fund.id) :
                                FilterByFund(l, fund.id)[k] = l[i]

\* C26: when every call is recorded under the number the form proposes (the
\* number of the fund's calls plus one), no two capital calls of one fund have
\* the same call_number, whatever calls were recorded and deleted.
C26_CallNumbersDistinct ==
    \A c, d \in capital_calls :
       c.fund_id = d.fund_id /\ c.call_number = d.call_number => c = d

\* C27: in the payment matrix a session shows, every LP call of its list has
\* a column of its own: the column under the call's name stands for that
\* call, so a save records the checkbox of the pair (investor, call) for that
\* call, and the checkbox shows the status of that pair, also when two calls
\* have the same date and the same percentage.
C27_EveryCallHasItsColumn ==
    \A s \in Sessions :
       LPShown(s) /\ get_investors(s) # {} =>
          \A col_mapping \in ColMappings(get_lp_calls(s)) :
             \A c \in get_lp_calls(s) :
                /\ col_mapping[ColName(c)] = c
                /\ \A inv \in get_investors(s) :
                      MatrixOf(get_investors(s), col_mapping,
                               cache[s]["lp_payments"].first)[<<inv.id, ColName(c)>>]
                          = IsPaid(cache[s]["lp_payments"].first, c, inv)

\* C28: the empty list of a read that failed is kept like the result of a
\* read that succeeded: the tables of a page are all cached after the script
\* run; a list kept from a failed read is empty and younger than the TTL; it
\* stays, whatever the store holds, until a handler of the session reaches
\* its cache clear, the session refreshes or the TTL runs out; and a
\* payment-matrix save of a session whose lp_payments read failed inserts a
\* row for every cell it handles, also for a pair that has a row.
C28_FailedReadIsCached ==
    [][\A s \in Sessions :
          /\ (\E t \in LPTables : cache'[s][t].loaded) =>
                 \A t \in LPTables : cache'[s][t].loaded
          /\ \A t \in Tables :
                /\ ReadFailed(s, t)' =>
                       cache'[s][t].rows = {} /\ cache'[s][t].age < ttl
                /\ ReadFailed(s, t) =>
                       \/ /\ ReadFailed(s, t)'
                          /\ cache'[s][t].age >= cache[s][t].age
                       \/ /\ ~cache'[s][t].loaded
                          /\ \/ hist'.last.op # "none" /\ hist'.last.s = s
                                                      /\ hist'.last.ok
                             \/ \A u \in Tables : ~cache'[s][u].loaded
                             \/ cache[s][t].age + TickSeconds >= ttl
          /\ ReadFailed(s, "lp_payments") /\ hist'.last.op = "SavePayments"
                                           /\ hist'.last.s = s =>
                 \A c \in hist'.called :
                    Cardinality(RowsOfCell(lp_payments', c))
                        = Cardinality(RowsOfCell(lp_payments, c)) + 1]_vars

\* the save of the one session has given a pair its second row.  The session
\* clears its cache after each of its writes, so the list in which the save
\* found no row for the pair is the empty list of a failed read, made when the
\* pair had its row.
C28_Witness ==
    /\ hist.last.op = "SavePayments" /\ hist.last.ok
    /\ hist.called # {}
    /\ \A c \in hist.called : Cardinality(RowsOfCell(lp_payments, c)) = 2

\* the investors of the session's list that have a paid row for call c among
\* the payment rows the session has read
PaidInvestors(s, c) ==
    {inv \in get_investors(s) :
        \E p \in get_lp_payments(s) :
           p.lp_call_id = c.id /\ p.investor_id = inv.id /\ p.is_paid}

\* C29: when no commitment of the session's list is negative, the summary row
\* of every LP call with call_pct >= 0, on the overview and on the investors
\* page, has 0 <= received <= required and outstanding >= 0, whatever payment
\* rows there are: an investor of the list is counted at most once, and only
\* investors of the list are counted.
C29_ReceivedWithinRequired ==
    \A s \in Sessions :
       LPShown(s) /\ (\A inv \in get_investors(s) : inv.commitment >= 0) =>
          \A row \in OverviewSummary(s) \cup InvestorsSummary(s) :
             \A c \in get_lp_calls(s) :
                c.id = row.call /\ c.call_pct >= 0 =>
                   /\ 0 <= row.received
                   /\ row.received <= row.required
                   /\ row.outstanding >= 0
                   /\ row.received
                         <= SumCommitment(PaidInvestors(s, c)) * c.call_pct

\* the session has read an investor with two paid rows for one call and a paid
\* row of an investor that has been deleted; the summary of the investors page
\* has received money for that call
C29_Witness ==
    /\ LPShown("s1")
    /\ \A inv \in get_investors("s1") : inv.commitment >= 0
    /\ \E row \in InvestorsSummary("s1") : row.received > 0
    /\ \E inv \in get_investors("s1"), p, q \in get_lp_payments("s1") :
          /\ SamePair(p, q) /\ p # q /\ p.investor_id = inv.id
          /\ p.is_paid /\ q.is_paid
    /\ \E p \in get_lp_payments("s1") :
          /\ p.is_paid
          /\ \A inv \in investors \cup get_investors("s1") :
                inv.id # p.investor_id

(***************************************************************************)
(* Claims about deleting and the audit log                                 *)
(***************************************************************************)
\* the handler that deletes one record of table t
DeleteOp(t) ==
    CASE t = "funds" -> "DeleteFund"
      [] t = "capital_calls" -> "DeleteCall"
      [] t = "distributions" -> "DeleteDistribution"
      [] t = "quarterly_reports" -> "DeleteReport"
      [] t = "investors" -> "DeleteInvestor"
      [] t = "lp_calls" -> "DeleteLpCall"

\* the rows of table t that the step removes from the store
Removed(t) == {r \in Table(t) : \A q \in Table(t)' : q.id # r.id}

\* the step is the confirmed delete of record r of table t: the session's
\* confirm_del key of the record was set when "Yes" was pressed
DeletedAsAsked(t, r) ==
    /\ hist'.last.op = DeleteOp(t)
    /\ hist'.last.id = r.id
    /\ <<t, r.id>> \in session_state[hist'.last.s].confirm

\* the step is the confirmed delete of the fund of child row r
DeletedWithItsFund(t, r) ==
    /\ t \in {"capital_calls", "distributions", "quarterly_reports"}
    /\ hist'.last.op = "DeleteFund"
    /\ hist'.last.id = r.fund_id
    /\ <<"funds", r.fund_id>> \in session_state[hist'.last.s].confirm

\* what the requests and the cancels do: a confirm_del key is set by a
\* step that changes nothing else and is for a record on the session's pages;
\* it goes away by "Cancel", with the store unchanged, or by the delete it
\* confirmed
RequestsAndCancels ==
    \A s \in Sessions :
       /\ session_state'[s].confirm # session_state[s].confirm =>
              \/ /\ hist'.last = NoOp
                 /\ storeVars' = storeVars
                 /\ \E f \in DeletableTables \X (1..(MaxDeleteRows + 1)) :
                       /\ \E r \in Listed(s, f[1]) : r.id = f[2]
                       /\ \/ session_state'[s].confirm =
                                 session_state[s].confirm \cup {f}
                          \/ session_state'[s].confirm =
                                 session_state[s].confirm \ {f}
              \/ /\ hist'.last.s = s /\ hist'.last.ok
                 /\ \E t \in DeletableTables :
                       /\ hist'.last.op = DeleteOp(t)
                       /\ session_state'[s].confirm =
                              session_state[s].confirm \ {<<t, hist'.last.id>>}

\* C25: a fund, investor, LP call, capital call, distribution or quarterly
\* report leaves the store only in the step that confirms, in a session, the
\* delete that was asked for in that session for the record itself or, for a
\* capital call, distribution or report, for the fund it belongs to; "Cancel"
\* takes the request back and leaves the store as it is.
C25_DeletedOnlyWhenAskedAndConfirmed ==
    [][/\ \A t \in DeletableTables : \A r \in Removed(t) :
             DeletedAsAsked(t, r) \/ DeletedWithItsFund(t, r)
       /\ RequestsAndCancels]_vars

\* C25 as stated: a record leaves the store only in the step that confirms
\* the delete that was asked for in that session for that same record.
C25_DeletedOnlyWhenItselfAsked ==
    [][/\ \A t \in DeletableTables : \A r \in Removed(t) : DeletedAsAsked(t, r)
       /\ RequestsAndCancels]_vars

\* the second session has confirmed the delete of a fund, and a child row of
\* the fund is gone with it, while the first session still asks whether to
\* delete a record
C25_Witness ==
    /\ hist.last.op = "DeleteFund" /\ hist.last.s = "s2" /\ hist.last.ok
    /\ funds = {}
    /\ ChildRows = {}
    /\ ChildRowsInserted > 0
    /\ session_state["s2"].confirm = {}
    /\ session_state["s1"].confirm # {}

\* the record that entry e of the audit log names is in the store
StillExists(e) == \E r \in Table(e.table_name) : r.id = e.id

\* C30: the audit log only grows, by the entry of the handler that runs.
\* Wherever a logged delete or update can run, it can write its entry and
\* then fail in its store call, which leaves the entry in the log and the
\* store as it was; and it can go through with its store call although the
\* insert into the audit log raised, which leaves no entry.
C30_LoggedBeforeTheMutation ==
    /\ [][/\ Len(audit_logs') >= Len(audit_logs)
          /\ SubSeq(audit_logs', 1, Len(audit_logs)) = audit_logs
          /\ Len(audit_logs') > Len(audit_logs) =>
                 /\ Len(audit_logs') = Len(audit_logs) + 1
                 /\ audit_logs'[Len(audit_logs')]
                        = AuditEntry(hist'.last.op, hist'.last.id)]_vars
    /\ [](\A name \in LoggedFirst :
             ENABLED LoggedHandler("s1", name) =>
                /\ ENABLED (/\ LoggedHandler("s1", name)
                            /\ ~hist'.last.ok
                            /\ Len(audit_logs') = Len(audit_logs) + 1
                            /\ storeVars' = storeVars)
                /\ ENABLED (/\ LoggedHandler("s1", name)
                            /\ hist'.last.ok
                            /\ audit_logs' = audit_logs))

\* the delete of a record has failed after its entry was written: the log
\* holds a DELETE entry for a record that is in the store
C30_Witness ==
    /\ ~hist.last.ok
    /\ hist.last.op \in {DeleteOp(t) : t \in DeletableTables}
    /\ Len(audit_logs) = 1
    /\ audit_logs[1] = AuditEntry(hist.last.op, hist.last.id)
    /\ audit_logs[1].action = "DELETE"
    /\ StillExists(audit_logs[1])

====
